---- MODULE Spec2Model ----
(***************************************************************************)
(* Atom selection engine of ProDy (prody/atomic/select.py): the keyword    *)
(* catalog, the macro table and the selection-string evaluator of class    *)
(* Select.                                                                 *)
(*                                                                         *)
(* Python lists and numpy arrays are sequences: position p of a sequence   *)
(* models Python offset p-1.  Atom indices (the values of the "index"      *)
(* keyword and of Selection._indices) keep their Python value, 0..N-1.     *)
(* Floats are integers (the literals used are whole numbers).              *)
(***************************************************************************)
EXTENDS Integers, Sequences, FiniteSets, TLC

VARIABLES KEYWORD_RESNAMES, KEYWORD_MAP, KEYWORD_NAME_REGEX,
          BACKBONE_ATOM_NAMES, BACKBONE_FULL_ATOM_NAMES, MACROS,
          call, ncalls, SELECT, arrays, LEGACY

vars == <<KEYWORD_RESNAMES, KEYWORD_MAP, KEYWORD_NAME_REGEX,
          BACKBONE_ATOM_NAMES, BACKBONE_FULL_ATOM_NAMES, MACROS,
          call, ncalls, SELECT, arrays, LEGACY>>

\* the Select instance the calls are made on (its _data and _coords), the
\* arrays the caller has set on the atom groups, and the module level names
\* of the former module prody/select.py
instance == <<SELECT, arrays, LEGACY>>

catalog == <<KEYWORD_RESNAMES, KEYWORD_MAP, KEYWORD_NAME_REGEX,
             BACKBONE_ATOM_NAMES, BACKBONE_FULL_ATOM_NAMES>>

(***************************************************************************)
(* Bounds of the model.                                                    *)
(***************************************************************************)
\* number of atoms of the atom group the queries are evaluated on
NumAtoms == 6
\* number of atoms of the large atom group of the distance queries; it is
\* above the number of reference atoms from which Select._within searches
\* the other way round
NumLarge == 22
\* number of API calls in one behaviour
MaxCalls == 2

(***************************************************************************)
(* Sequence helpers.                                                       *)
(***************************************************************************)
Range(s) == {s[i] : i \in 1..Len(s)}

RECURSIVE SetToSeq(_)
\* list(a_set): some enumeration of the set, without repetition
SetToSeq(S) ==
    IF S = {} THEN <<>>
    ELSE LET x == CHOOSE y \in S : TRUE
         IN  <<x>> \o SetToSeq(S \ {x})

\* a[idx] with an integer index array idx (positions)
Take(a, idx) == [p \in 1..Len(idx) |-> a[idx[p]]]

RECURSIVE NonzeroFrom(_, _)
NonzeroFrom(a, p) ==
    IF p > Len(a) THEN <<>>
    ELSE (IF a[p] THEN <<p>> ELSE <<>>) \o NonzeroFrom(a, p + 1)

\* a.nonzero()[0] of a boolean array: the positions that are True
Nonzero(a) == NonzeroFrom(a, 1)

\* np.invert(a) of a boolean array
Invert(a) == [p \in 1..Len(a) |-> ~a[p]]

\* a[idx] = v : v is an array of len(idx) values
Assign(a, idx, v) ==
    [p \in 1..Len(a) |->
        IF \E q \in 1..Len(idx) : idx[q] = p
        THEN v[CHOOSE q \in 1..Len(idx) :
                 idx[q] = p /\ \A r \in (q+1)..Len(idx) : idx[r] # p]
        ELSE a[p]]

\* a[idx] = True
AssignTrue(a, idx) == [p \in 1..Len(a) |-> a[p] \/ p \in Range(idx)]

(***************************************************************************)
(* The atom group the selections are made on, with secondary structure     *)
(* assigned.  It carries no user data (AtomGroup.isData is false for every *)
(* label).                                                                 *)
(***************************************************************************)
AtomNames    == <<"N",   "CA",  "CB",  "CA",  "CB",  "O",   "H",   "CA">>
AtomResnames == <<"ALA", "GLU", "ASP", "LYS", "HEM", "HOH", "ALA", "GLY">>
AtomResnums  == <<1,     1,     2,     3,     4,     5,     6,     7>>
AtomXs       == <<0,     1,     3,     5,     2,     9,     4,     6>>
AtomSecstrs  == <<"H",   "G",   "I",   "E",   "T",   "C",   "B",   "S">>

\* the atoms come in rows of Len(AtomNames) atoms: one chain for each row,
\* one segment for each two rows, and one y for each row (z is 0)
AtomChains   == <<"A",  "B",  "C",  "D">>
AtomSegments == <<"S1", "S1", "S2", "S2">>
AtomYs       == <<0,    3,    6,    9>>

Slot(i) == ((i - 1) % Len(AtomNames)) + 1
Row(i) == (((i - 1) \div Len(AtomNames)) % Len(AtomChains)) + 1

\* what tells the residue, the chain and the segment of an atom (the
\* insertion codes are not set)
GroupKey(what, p) ==
    SubSeq(<<AtomSegments[Row(p)], AtomChains[Row(p)], AtomResnums[Slot(p)]>>,
           1, CASE what = "residue" -> 3
                [] what = "chain"   -> 2
                [] OTHER            -> 1)

RECURSIVE GroupIndex(_, _)
\* HierView: the residue, chain or segment index of atom p, the number of
\* the run of atoms with equal key that the atom is in, counted from 0
GroupIndex(what, p) ==
    IF p = 1 THEN 0
    ELSE GroupIndex(what, p - 1)
         + (IF GroupKey(what, p) = GroupKey(what, p - 1) THEN 0 ELSE 1)

\* the column of an attribute in the table of atoms; an atom group of n
\* atoms holds its first n rows
AgColumn(keyword) ==
    [p \in 1..NumLarge |->
        CASE keyword = "name"     -> AtomNames[Slot(p)]
          [] keyword = "resname"  -> AtomResnames[Slot(p)]
          [] keyword = "resnum"   -> AtomResnums[Slot(p)]
          [] keyword = "x"        -> AtomXs[Slot(p)]
          [] keyword = "secondary" -> AtomSecstrs[Slot(p)]
          [] keyword = "y"        -> AtomYs[Row(p)]
          [] keyword = "z"        -> 0
          [] keyword = "chain"    -> AtomChains[Row(p)]
          [] keyword = "segment"  -> AtomSegments[Row(p)]
          [] keyword = "resindex" -> GroupIndex("residue", p)
          [] keyword = "chindex"  -> GroupIndex("chain", p)
          [] keyword = "segindex" -> GroupIndex("segment", p)
          [] OTHER                -> p - 1]

AgFields == {"name", "resname", "resnum", "x", "y", "z", "chain", "segment",
             "resindex", "chindex", "segindex", "secondary"}

\* characters of the atom names, for regular expression matching
Chars ==
    [n \in Range(AtomNames) \cup {"C", "CG", "H1"} |->
        CASE n = "N"  -> <<"N">>
          [] n = "CA" -> <<"C", "A">>
          [] n = "CB" -> <<"C", "B">>
          [] n = "CG" -> <<"C", "G">>
          [] n = "C"  -> <<"C">>
          [] n = "O"  -> <<"O">>
          [] n = "H"  -> <<"H">>
          [] n = "H1" -> <<"H", "1">>
          [] OTHER    -> <<>>]

(***************************************************************************)
(* Keyword catalog.                                                        *)
(***************************************************************************)
KEYWORDS_STRING  == {"name", "type", "resname", "chain", "element", "segment",
                     "altloc", "secondary", "icode", "chid", "secstr",
                     "segname"}
KEYWORDS_INTEGER == {"serial", "index", "resnum", "resid", "segindex",
                     "chindex", "resindex"}
KEYWORDS_FLOAT   == {"x", "y", "z", "beta", "mass", "occupancy", "radius",
                     "charge"}
KEYWORDS_NUMERIC == KEYWORDS_FLOAT \cup KEYWORDS_INTEGER
KEYWORDS_VALUE_PAIRED == KEYWORDS_NUMERIC \cup KEYWORDS_STRING

\* KEYWORD_RESNAMES as the module defines it, before the read-only keywords
\* are added
KEYWORD_RESNAMES_0 ==
    [protein |-> <<"ALA", "ARG", "ASN", "ASP", "CYS", "GLN", "GLU", "GLY",
                   "HIS", "ILE", "LEU", "LYS", "MET", "PHE", "PRO", "SER",
                   "THR", "TRP", "TYR", "VAL", "HSD", "HSE", "HSP", "GLX",
                   "ASX", "SEC", "PYL", "XLE", "CSO">>,
     nucleic |-> <<"GUA", "ADE", "CYT", "THY", "URA", "DA", "DC", "DG", "DT",
                   "A", "C", "G", "T", "U">>,
     acidic |-> <<"ASP", "GLU">>,
     aliphatic |-> <<"ALA", "GLY", "ILE", "LEU", "VAL", "XLE">>,
     aromatic |-> <<"HIS", "PHE", "TRP", "TYR", "HSD", "HSE", "HSP">>,
     basic |-> <<"LYS", "ARG", "HIS", "HSP", "HSD">>,
     buried |-> <<"ALA", "LEU", "VAL", "ILE", "XLE", "PHE", "CYS", "MET",
                  "TRP">>,
     cyclic |-> <<"HIS", "PHE", "PRO", "TRP", "TYR", "HSD", "HSE", "HSP">>,
     hydrophobic |-> <<"ALA", "ILE", "LEU", "MET", "PHE", "PRO", "TRP", "VAL",
                       "XLE">>,
     small |-> <<"ALA", "GLY", "SER">>,
     medium |-> <<"VAL", "THR", "ASP", "ASN", "ASX", "PRO", "CYS", "SEC">>,
     water |-> <<"HOH", "WAT", "TIP3", "H2O", "HH0", "OHH", "OH2", "SOL",
                 "TIP", "TIP2", "TIP4">>,
     lipid |-> <<"DLPE", "DMPC", "DPPC", "GPC", "LPPC", "PALM", "PC", "PGCL",
                 "POPC", "POPE">>,
     heme |-> <<"HEM", "HEME">>,
     ion |-> <<"AL", "BA", "CA", "CAL", "CD", "CES", "CLA", "CL", "CO", "CS",
               "CU", "CU1", "CUA", "HG", "IN", "IOD", "K", "MG", "MN3", "MO3",
               "MO4", "MO5", "MO6", "NA", "NAW", "OC7", "PB", "POT", "PT",
               "RB", "SOD", "TB", "TL", "WO4", "YB", "ZN", "ZN1", "ZN2">>,
     sugar |-> <<"AGLC">>,
     at |-> <<"ADE", "A", "THY", "T">>,
     cg |-> <<"CYT", "C", "GUA", "G">>,
     purine |-> <<"ADE", "A", "GUA", "G">>,
     pyrimidine |-> <<"CYT", "C", "THY", "T", "URA", "U">>]

\* the keywords that cannot be set directly
KEYWORD_RESNAMES_READONLY ==
    {"acyclic", "charged", "large", "neutral", "polar", "surface"}

\* d[key] = value on a dictionary (adds the key when it is new)
DictSet(d, key, value) ==
    [k \in DOMAIN d \cup {key} |-> IF k = key THEN value ELSE d[k]]

\* KEYWORD_RESNAMES[key] = list(protein.difference(set(...))), the set
\* being made of the lists of the keywords others
Without(kr, protein, key, others) ==
    DictSet(kr, key, SetToSeq(protein \ UNION {Range(kr[o]) : o \in others}))

\* KEYWORD_RESNAMES['charged'] = list(set(acidic + basic))
Charged(kr) ==
    DictSet(kr, "charged", SetToSeq(Range(kr["acidic"] \o kr["basic"])))

\* _setReadonlyResidueNames with neutral computed from the charged list of
\* before the call
StaleNeutral_setReadonlyResidueNames(kr) ==
    LET protein == Range(kr["protein"])
        old == IF "charged" \in DOMAIN kr THEN Range(kr["charged"])
               ELSE Range(kr["acidic"] \o kr["basic"])
    IN  Without(
            Without(
                DictSet(Without(Charged(Without(kr, protein, "acyclic",
                                                {"cyclic"})),
                                protein, "large", {"small", "medium"}),
                        "neutral", SetToSeq(protein \ old)),
                protein, "polar", {"hydrophobic"}),
            protein, "surface", {"buried"})

\* _setReadonlyResidueNames(): the dictionary after the call
_setReadonlyResidueNames(kr) ==
    LET protein == Range(kr["protein"])
    IN  Without(
            Without(
                Without(Without(Charged(Without(kr, protein, "acyclic",
                                                {"cyclic"})),
                                protein, "large", {"small", "medium"}),
                        protein, "neutral", {"charged"}),
                protein, "polar", {"hydrophobic"}),
            protein, "surface", {"buried"})

SECSTR_MAP ==
    [extended |-> "E", helix |-> "H", helix_pi |-> "G", helix_3_10 |-> "I",
     turn |-> "T", bridge |-> "B", bend |-> "S", coil |-> "C"]

\* a compiled regular expression of the form  [opt]?lit.*  : an optional
\* leading character of opt, the literal characters lit, then anything
Regex(pattern, opt, lit) == [pattern |-> pattern, opt |-> opt, lit |-> lit]

Digits09 == {"0", "1", "2", "3", "4", "5", "6", "7", "8", "9"}

KEYWORD_NAME_REGEX_0 ==
    [carbon   |-> Regex("C.*", {}, <<"C">>),
     hydrogen |-> Regex("[0-9]?H.*", Digits09, <<"H">>),
     nitrogen |-> Regex("N.*", {}, <<"N">>),
     oxygen   |-> Regex("O.*", {}, <<"O">>),
     sulfur   |-> Regex("S.*", {}, <<"S">>)]

HasPrefix(s, lit) ==
    /\ Len(s) >= Len(lit)
    /\ \A p \in 1..Len(lit) : s[p] = lit[p]

\* RE.compile('^(' + pattern + ')$') for a pattern of literal characters
\* followed by `dots` times `.`, or by `.*` (dots = -1)
Anchored(pattern, lit, dots) ==
    [pattern |-> "^(" \o pattern \o ")$", opt |-> {}, lit |-> lit,
     dots |-> dots]

\* regex.match(string) is not None: the pattern matches at the start, and
\* an anchored pattern matches up to the end
ReMatch(regex, chars) ==
    /\ \/ HasPrefix(chars, regex.lit)
       \/ /\ Len(chars) >= 1
          /\ chars[1] \in regex.opt
          /\ HasPrefix(Tail(chars), regex.lit)
    /\ ("dots" \in DOMAIN regex /\ regex.dots >= 0) =>
           Len(chars) = Len(regex.lit) + regex.dots

(***************************************************************************)
(* The module level names of the former module prody/select.py: tuples of  *)
(* names, and the regular expression of the hydrogen atom names.  A Python *)
(* value is given with its type: a list, a tuple or a str.                 *)
(***************************************************************************)
TupleArg(items) == [type |-> "tuple", items |-> items]
StrArg(items) == [type |-> "str", items |-> items]

\* tuple(value) and list(value): the items of a list or a tuple, the
\* characters of a str
tuple(value) == [type |-> "tuple", items |-> value.items]
list(value) == [type |-> "list", items |-> value.items]

\* isinstance(value, (list, tuple)) and isinstance(value, (str))
IsListOrTuple(value) == value.type \in {"list", "tuple"}
IsString(value) == value.type = "str"

LEGACY_0 ==
    [BACKBONE_ATOM_NAMES |-> TupleArg(<<"CA", "N", "C", "O">>),
     PROTEIN_RESIDUE_NAMES |->
         TupleArg(<<"ALA", "ARG", "ASN", "ASP", "CYS", "GLN", "GLU", "GLY",
                    "HIS", "ILE", "LEU", "LYS", "MET", "PHE", "PRO", "SER",
                    "THR", "TRP", "TYR", "VAL", "HSD", "HSE", "HSP">>),
     WATER_RESIDUE_NAMES |-> TupleArg(<<"HOH", "WAT", "TIP3", "H2O">>),
     NUCLEIC_RESIDUE_NAMES |->
         TupleArg(<<"GUA", "ADE", "CYT", "THY", "URA", "DA", "DC", "DG",
                    "DT">>),
     HYDROGEN_REGEX |->
         StrArg(<<"[", "0", "-", "9", "]", "?", "H", ".", "*">>),
     ACIDIC_RESIDUE_NAMES |-> TupleArg(<<"ASP", "GLU">>),
     BASIC_RESIDUE_NAMES |-> TupleArg(<<"LYS", "ARG", "HIS", "HSP">>),
     ALIPHATIC_RESIDUE_NAMES |->
         TupleArg(<<"ALA", "GLY", "ILE", "LEU", "VAL">>),
     AROMATIC_RESIDUE_NAMES |-> TupleArg(<<"HIS", "PHE", "TRP", "TYR">>),
     SMALL_RESIDUE_NAMES |-> TupleArg(<<"ALA", "GLY", "SER">>),
     MEDIUM_RESIDUE_NAMES |->
         TupleArg(<<"VAL", "THR", "ASP", "ASN", "PRO", "CYS">>),
     HYDROPHOBIC_RESIDUE_NAMES |-> TupleArg(<<>>),
     CYCLIC_RESIDUE_NAMES |->
         TupleArg(<<"HIS", "PHE", "PRO", "TRP", "TYR">>)]

(***************************************************************************)
(* Tokens and values of the evaluator.  A token of a parsed selection      *)
(* string is a Python str, a compiled regular expression, a numpy array    *)
(* (boolean or numeric) or a float; an evaluation also ends in None or in  *)
(* a raised exception.                                                     *)
(***************************************************************************)
NoRegex == Regex("", {}, <<>>)

Str(s)      == [k |-> "str",   s |-> s,  a |-> <<>>,  re |-> NoRegex]
ReTok(r)    == [k |-> "re",    s |-> "", a |-> <<>>,  re |-> r]
BoolArr(m)  == [k |-> "bool",  s |-> "", a |-> m,     re |-> NoRegex]
NumArr(v)   == [k |-> "num",   s |-> "", a |-> v,     re |-> NoRegex]
Float(x)    == [k |-> "float", s |-> "", a |-> <<x>>, re |-> NoRegex]
None        == [k |-> "None",  s |-> "", a |-> <<>>,  re |-> NoRegex]
Raise(e)    == [k |-> "raise", s |-> e,  a |-> <<>>,  re |-> NoRegex]

IsStr(t)    == t.k = "str"
IsArray(t)  == t.k \in {"bool", "num"}
IsNone(t)   == t.k = "None"
IsRaise(t)  == t.k = "raise"

Strs(seq) == [p \in 1..Len(seq) |-> Str(seq[p])]

AND == "&&&"
NOT == "!!!"
OR  == "||"

\* an entry of KEYWORD_MAP: (residue_names, invert, atom_names, atom_names_not)
MapEntry(rn_none, residue_names, rn_invert, an_none, atom_names, an_invert) ==
    [rn_none |-> rn_none, residue_names |-> residue_names,
     rn_invert |-> rn_invert, an_none |-> an_none,
     atom_names |-> atom_names, an_invert |-> an_invert]

RECURSIVE MapResnames(_, _, _)
\* the loop over KEYWORD_RESNAMES.iteritems() of _buildKeywordMap
MapResnames(km, kr, keys) ==
    IF keys = {} THEN km
    ELSE LET keyword == CHOOSE k \in keys : TRUE
         IN  MapResnames(
                 DictSet(km, keyword,
                         MapEntry(FALSE, kr[keyword], FALSE, TRUE, <<>>, FALSE)),
                 kr, keys \ {keyword})

RECURSIVE MapRegex(_, _, _)
\* the loop over KEYWORD_NAME_REGEX.iteritems() of _buildKeywordMap
MapRegex(km, regexes, keys) ==
    IF keys = {} THEN km
    ELSE LET name == CHOOSE k \in keys : TRUE
         IN  MapRegex(
                 DictSet(km, name,
                         MapEntry(TRUE, <<>>, FALSE, FALSE,
                                  <<ReTok(regexes[name])>>, FALSE)),
                 regexes, keys \ {name})

\* KEYWORD_MAP[new] = KEYWORD_MAP[old]
Alias(km, new, old) == DictSet(km, new, km[old])

\* _buildKeywordMap(): KEYWORD_MAP after the call, from the tables as they
\* are at the time of the call; the assignments are nested in the order of
\* the code, the first one innermost
_buildKeywordMap(km, kr, regexes, bb, bbfull) ==
    LET protein == kr["protein"]
        calpha == MapEntry(FALSE, protein, FALSE, FALSE, <<Str("CA")>>, FALSE)
        backbone == MapEntry(FALSE, protein, FALSE, FALSE,
                             Strs(SetToSeq(bb)), FALSE)
        backbonefull == MapEntry(FALSE, protein, FALSE, FALSE,
                                 Strs(SetToSeq(bbfull)), FALSE)
        sidechain == MapEntry(FALSE, protein, FALSE, FALSE,
                              Strs(SetToSeq(bbfull)), TRUE)
    IN  DictSet(
        DictSet(
        MapRegex(
        DictSet(
        Alias(DictSet(
        Alias(DictSet(
        Alias(DictSet(
        Alias(DictSet(DictSet(
            MapResnames(km, kr, DOMAIN kr),
            "alpha", calpha),
            "calpha", calpha),
            "ca", "calpha"),
            "backbone", backbone),
            "bb", "backbone"),
            "backbonefull", backbonefull),
            "bbfull", "backbonefull"),
            "sidechain", sidechain),
            "sc", "sidechain"),
            "hetero", MapEntry(FALSE, protein \o kr["nucleic"], TRUE,
                               TRUE, <<>>, FALSE)),
            regexes, DOMAIN regexes),
            "carbon", MapEntry(FALSE, kr["ion"], TRUE, FALSE,
                               <<ReTok(regexes["carbon"])>>, FALSE)),
            "noh", MapEntry(TRUE, <<>>, FALSE, FALSE,
                            <<ReTok(regexes["hydrogen"])>>, TRUE))

EmptyDict == [k \in {} |-> <<>>]

BACKBONE_ATOM_NAMES_0 == {"CA", "N", "C", "O"}
BACKBONE_FULL_ATOM_NAMES_0 == {"CA", "N", "C", "O", "H", "H1", "H2", "H3", "OXT"}

\* KEYWORD_MAP when the module has been imported
KEYWORD_MAP_0 ==
    _buildKeywordMap(EmptyDict, _setReadonlyResidueNames(KEYWORD_RESNAMES_0),
                    KEYWORD_NAME_REGEX_0, BACKBONE_ATOM_NAMES_0,
                    BACKBONE_FULL_ATOM_NAMES_0)

\* computed once when the module is imported, never updated
KEYWORDS_BOOLEAN ==
    {"all", "none"} \cup DOMAIN KEYWORD_MAP_0 \cup DOMAIN SECSTR_MAP

isBooleanKeyword(keyword) == keyword \in KEYWORDS_BOOLEAN
isValuePairedKeyword(keyword) == keyword \in KEYWORDS_VALUE_PAIRED
isNumericKeyword(keyword) == keyword \in KEYWORDS_NUMERIC
isAlnumKeyword(keyword) == keyword \in KEYWORDS_STRING
isFloatKeyword(keyword) == keyword \in KEYWORDS_FLOAT
isIntKeyword(keyword) == keyword \in KEYWORDS_INTEGER
isKeyword(keyword) == isBooleanKeyword(keyword) \/ isValuePairedKeyword(keyword)

(***************************************************************************)
(* The evaluator, class Select.  `self` is the target of the evaluation as *)
(* getBoolArray stores it: whether it is an AtomGroup, and otherwise the   *)
(* indices of the subset (Selection, Atom, AtomMap).                       *)
(***************************************************************************)
AtomGroup == [ag |-> TRUE, indices |-> <<>>, n |-> NumAtoms]
LargeGroup == [ag |-> TRUE, indices |-> <<>>, n |-> NumLarge]
\* a subset of an atom group: self._indices, and self._ag of group.n atoms
SubsetOf(group, indices) == [ag |-> FALSE, indices |-> indices, n |-> group.n]
Subset(indices) == SubsetOf(AtomGroup, indices)

\* self._coords when it is None, and when it holds an array
NoCoords == [none |-> TRUE, a |-> <<>>]
Coords(a) == [none |-> FALSE, a |-> a]

\* Select.__init__: the caches of a new instance (the entries of _data are
\* None)
Select__init__ == [_data |-> <<>>, _coords |-> NoCoords]

\* Select._reset that leaves self._data as it is
Keep_reset(self) == [_data |-> self._data, _coords |-> NoCoords]

\* Select._reset: self._coords = None and self._data.clear()
_reset(self) == [_data |-> <<>>, _coords |-> NoCoords]

\* self._n_atoms
n_atoms(self) == IF self.ag THEN self.n ELSE Len(self.indices)

\* the evalonly argument: None, or an array of positions
NoEvalonly == [none |-> TRUE, idx |-> <<>>]
Evalonly(idx) == [none |-> FALSE, idx |-> idx]

\* a[evalonly] when evalonly is given, else a
Restrict(a, evalonly) == IF evalonly.none THEN a ELSE Take(a, evalonly.idx)

\* a[evalonly] raises IndexError: a position of evalonly is not in the array
OutOfBounds(a, evalonly) ==
    ~evalonly.none /\ \E q \in 1..Len(evalonly.idx) : evalonly.idx[q] > Len(a)

\* the tokens argument of _evaluate: one token, or a list of tokens
One(t) == [list |-> FALSE, toks |-> <<t>>]
List(ts) == [list |-> TRUE, toks |-> ts]

\* synonyms of the data fields (chid, resid, secstr, segname)
KEYWORDS_SYNONYMS ==
    [chid |-> "chain", resid |-> "resnum", secstr |-> "secondary",
     segname |-> "segment"]

Synonym(keyword) ==
    IF keyword \in DOMAIN KEYWORDS_SYNONYMS THEN KEYWORDS_SYNONYMS[keyword]
    ELSE keyword

_specialKeywords == {"secondary", "chain", "altloc", "segment", "icode"}

\* Select._getData succeeds: the atom group has the column set
HasData(keyword) == keyword \in AgFields

\* the array of an attribute of the atom group of the target: the array the
\* caller has set on the group, else the column of the table of atoms
AgArray(self, keyword) ==
    IF "arrays" \in DOMAIN self /\ keyword \in DOMAIN self.arrays
    THEN self.arrays[keyword]
    ELSE AgColumn(keyword)

\* Select._getData: self._data.get(keyword), fetched from the atom group
\* when it is None, indexed by self._indices
_getData(self, keyword) ==
    [p \in 1..(IF self.ag THEN self.n ELSE Len(self.indices)) |->
        (IF "_data" \in DOMAIN self /\ keyword \in DOMAIN self._data
         THEN self._data[keyword]
         ELSE AgArray(self, keyword))[IF self.ag THEN p
                                      ELSE self.indices[p] + 1]]

\* the coordinates of a row of the table of atoms
AgCoords(p) == <<AgColumn("x")[p], AgColumn("y")[p], AgColumn("z")[p]>>

\* the coordinates of an atom of the atom group of the target: those the
\* caller has set on the group, else those of the table of atoms
GroupCoords(self, p) ==
    IF "arrays" \in DOMAIN self THEN self.arrays.coords[p] ELSE AgCoords(p)

\* Select._getCoords(): self._coords, fetched from self._atoms when it is
\* None: the coordinates of the atoms of the target
_getCoords(self) ==
    IF "_coords" \in DOMAIN self /\ ~self._coords.none THEN self._coords.a
    ELSE [p \in 1..(IF self.ag THEN self.n ELSE Len(self.indices)) |->
             GroupCoords(self, IF self.ag THEN p ELSE self.indices[p] + 1)]

\* the data of Select._evalFloat: Select._getCoords()[:,0], [:,1] or [:,2]
\* for x, y or z, else Select._getData(keyword)
FloatData(self, keyword) ==
    IF keyword \in {"x", "y", "z"}
    THEN [p \in 1..(IF self.ag THEN self.n ELSE Len(self.indices)) |->
             _getCoords(self)[p][CASE keyword = "x" -> 1
                                   [] keyword = "y" -> 2
                                   [] OTHER         -> 3]]
    ELSE _getData(self, keyword)

RECURSIVE FirstUnderscore(_, _)
FirstUnderscore(values, p) ==
    IF p > Len(values) THEN 0
    ELSE IF IsStr(values[p]) /\ values[p].s = "_" THEN p
    ELSE FirstUnderscore(values, p + 1)

\* Select._evalAlnum
_evalAlnum(self, kw, vals, evalonly) ==
    LET keyword == Synonym(kw)
        u == IF keyword \in _specialKeywords THEN FirstUnderscore(vals, 1) ELSE 0
        values == IF u = 0 THEN vals
                  ELSE [vals EXCEPT ![u] = Str(" ")] \o <<Str("")>>
        data == Restrict(_getData(self, keyword), evalonly)
        strings == SelectSeq(values, LAMBDA v : IsStr(v))
        regexps == SelectSeq(values, LAMBDA v : ~IsStr(v))
        wanted == {strings[p].s : p \in 1..Len(strings)}
        torf == [p \in 1..Len(data) |-> data[p] \in wanted]
    IN  IF ~HasData(keyword) THEN Raise("SelectionError")
        ELSE IF OutOfBounds(_getData(self, keyword), evalonly)
        THEN Raise("IndexError")
        ELSE IF regexps = <<>> THEN BoolArr(torf)
        ELSE \* each regular expression overwrites every entry of torf
             BoolArr([p \in 1..Len(data) |->
                        ReMatch(regexps[Len(regexps)].re, Chars[data[p]])])

\* the words float() and int() accept, in the order of their value
NumberWords ==
    <<"0", "1", "2", "3", "4", "5", "6", "7", "8", "9", "10", "11", "12",
      "13", "14", "15", "16", "17", "18", "19", "20", "21", "22">>

\* the words float() and int() accept, with their value
NumberOf ==
    [n \in Range(NumberWords) |->
        (CHOOSE i \in 1..Len(NumberWords) : NumberWords[i] = n) - 1]

IsNumber(w) == w \in DOMAIN NumberOf

\* the words of the form a:b and a:b:c, with their integers
ColonOf ==
    [w \in {"1:3", "0:6:2", "2:5"} |->
        CASE w = "1:3" -> <<1, 3>>
          [] w = "2:5" -> <<2, 5>>
          [] OTHER     -> <<0, 6, 2>>]

IsColon(w) == w \in DOMAIN ColonOf

\* items of the list _getNumRange returns
NumItem(x)       == [t |-> "num",   v |-> <<x>>,    s |-> ""]
ListItem(a, b)   == [t |-> "list",  v |-> <<a, b>>, s |-> ""]
TupleItem(v)     == [t |-> "tuple", v |-> v,        s |-> ""]
StrItem(w)       == [t |-> "str",   v |-> <<>>,     s |-> w]

RECURSIVE NumRangeFrom(_, _, _)
\* Select._getNumRange on a list of words: "a to b" joins into one item,
\* a:b and a:b:c are tuples, a number is itself; the result is
\* [st |-> "ok", items], [st |-> "None"] or [st |-> "raise"]
NumRangeFrom(words, p, intfloat) ==
    IF p > Len(words) THEN [st |-> "ok", items |-> <<>>]
    ELSE
      LET w == words[p]
          isTo == p + 2 <= Len(words) /\ words[p + 1] = "to"
          rest == NumRangeFrom(words, IF isTo THEN p + 3 ELSE p + 1, intfloat)
          cons(item) == IF rest.st = "ok"
                        THEN [st |-> "ok", items |-> <<item>> \o rest.items]
                        ELSE rest
      IN  IF isTo
          THEN IF IsNumber(w) /\ IsNumber(words[p + 2])
               THEN cons(ListItem(NumberOf[w], NumberOf[words[p + 2]]))
               ELSE [st |-> "raise", items |-> <<>>]
          ELSE IF w = "to" THEN [st |-> "raise", items |-> <<>>]
          ELSE IF IsColon(w) THEN cons(TupleItem(ColonOf[w]))
          ELSE IF IsNumber(w) THEN cons(NumItem(NumberOf[w]))
          ELSE IF intfloat THEN [st |-> "None", items |-> <<>>]
          ELSE cons(StrItem(w))

_getNumRange(token, intfloat) ==
    NumRangeFrom([p \in 1..Len(token) |-> token[p].s], 1, intfloat)

\* range(a, b, c) as a set, for a positive step
RangeSet(a, b, c) == {i \in a..(b - 1) : (i - a) % c = 0}

\* whether a value of a numeric column is selected by one item
ItemSelects(item, x) ==
    CASE item.t = "list"  -> item.v[1] <= x /\ x <= item.v[2]
      [] item.t = "tuple" ->
            IF Len(item.v) = 2 THEN item.v[1] <= x /\ x < item.v[2]
            ELSE x \in RangeSet(item.v[1], item.v[2], item.v[3])
      [] item.t = "num"   -> x = item.v[1]
      [] OTHER            -> FALSE

\* the mask of the values selected by at least one item
RangeMask(data, items) ==
    [p \in 1..Len(data) |->
        \E q \in 1..Len(items) : ItemSelects(items[q], data[p])]

\* Select._evalFloat with values
_evalFloat(self, keyword, values, evalonly) ==
    LET data == Restrict(FloatData(self, keyword), evalonly)
        numbers == _getNumRange(values, TRUE)
    IN  IF ~HasData(keyword) THEN Raise("SelectionError")
        ELSE IF OutOfBounds(_getData(self, keyword), evalonly)
        THEN Raise("IndexError")
        ELSE IF numbers.st = "raise" THEN Raise("SelectionError")
        ELSE IF numbers.st = "None" THEN None
        ELSE IF \E q \in 1..Len(numbers.items) :
                   numbers.items[q].t = "tuple" /\ Len(numbers.items[q].v) = 3
             THEN None
        ELSE BoolArr(RangeMask(data, numbers.items))

\* Select._resnum with a token list
_resnum(self, token, evalonly) ==
    LET resids == Restrict(_getData(self, "resnum"), evalonly)
        numbers == _getNumRange(token, FALSE)
    IN  IF OutOfBounds(_getData(self, "resnum"), evalonly)
        THEN Raise("IndexError")
        ELSE IF numbers.st = "raise" THEN Raise("SelectionError")
        ELSE IF \E q \in 1..Len(numbers.items) : numbers.items[q].t = "str"
             THEN \* the insertion codes are read, and they are not set
                  Raise("SelectionError")
        ELSE BoolArr(RangeMask(resids, numbers.items))

\* Select._serial with a token list
_serial(self, token, evalonly) ==
    LET serials == Restrict(_getData(self, "serial"), evalonly)
        numbers == _getNumRange(token, TRUE)
    IN  IF ~HasData("serial") THEN Raise("SelectionError")
        ELSE IF numbers.st = "raise" THEN Raise("SelectionError")
        ELSE IF numbers.st = "None" THEN None
        ELSE BoolArr(RangeMask(serials, numbers.items))

\* Select._index with a token list
_index(self, token, evalonly) ==
    LET numbers == _getNumRange(token, TRUE)
        torf == RangeMask([p \in 1..self.n |-> p - 1], numbers.items)
        mine == IF self.ag THEN torf
                ELSE [p \in 1..Len(self.indices) |-> torf[self.indices[p] + 1]]
    IN  IF numbers.st = "raise" THEN Raise("SelectionError")
        ELSE IF numbers.st = "None" THEN None
        ELSE IF OutOfBounds(mine, evalonly) THEN Raise("IndexError")
        ELSE BoolArr(Restrict(mine, evalonly))

\* Select._index(): `self._indices or np.arange(self._ag._n_atoms)`
_indexNoToken(self) ==
    LET arange == [p \in 1..self.n |-> p - 1]
    IN  IF self.ag THEN NumArr(arange)
        ELSE IF Len(self.indices) > 1 THEN Raise("ValueError")
        ELSE IF Len(self.indices) = 1 /\ self.indices[1] # 0
             THEN NumArr(self.indices)
        ELSE NumArr(arange)

\* Select._evalNumeric: a number operand or a numeric keyword
_evalNumeric(self, token) ==
    IF token.k \in {"num", "bool", "float"} THEN token
    ELSE IF ~IsStr(token) THEN Raise("TypeError")
    ELSE IF isFloatKeyword(token.s) \/ token.s \in {"resnum", "resid"}
         THEN IF HasData(Synonym(token.s))
              THEN NumArr(FloatData(self, Synonym(token.s)))
              ELSE Raise("SelectionError")
    ELSE IF token.s = "index" THEN _indexNoToken(self)
    ELSE IF isNumericKeyword(token.s)
         THEN IF HasData(token.s) THEN NumArr(_getData(self, token.s))
              ELSE Raise("SelectionError")
    ELSE IF IsNumber(token.s) THEN Float(NumberOf[token.s])
    ELSE None

COMPARISONS == {"<", ">", ">=", "<=", "==", "=", "!="}

\* BINOP_MAP[comp] on two numbers
Compare(comp, a, b) ==
    CASE comp = "<"  -> a < b
      [] comp = ">"  -> a > b
      [] comp = ">=" -> a >= b
      [] comp = "<=" -> a <= b
      [] comp = "!=" -> a # b
      [] OTHER       -> a = b

PyBool(b) == [k |-> "pybool", s |-> "", a |-> <<b>>, re |-> NoRegex]

\* the numbers of an array operand (a boolean array counts as 0 and 1)
Numbers(t) ==
    IF t.k = "bool" THEN [p \in 1..Len(t.a) |-> IF t.a[p] THEN 1 ELSE 0]
    ELSE t.a

\* BINOP_MAP[comp](left, right) with numpy broadcasting; two floats give a
\* Python bool, which is not an array
CompareValues(comp, left, right) ==
    LET l == Numbers(left)
        r == Numbers(right)
    IN  IF left.k = "float" /\ right.k = "float"
        THEN PyBool(Compare(comp, l[1], r[1]))
        ELSE IF left.k = "float"
        THEN BoolArr([p \in 1..Len(r) |-> Compare(comp, l[1], r[p])])
        ELSE IF right.k = "float"
        THEN BoolArr([p \in 1..Len(l) |-> Compare(comp, l[p], r[1])])
        ELSE IF Len(l) # Len(r) THEN Raise("ValueError")
        ELSE BoolArr([p \in 1..Len(l) |-> Compare(comp, l[p], r[p])])

\* result *= this, on comparison results
Times(result, this) ==
    IF result.k = "bool" /\ this.k = "bool"
    THEN IF Len(result.a) # Len(this.a) THEN Raise("ValueError")
         ELSE BoolArr([p \in 1..Len(this.a) |-> result.a[p] /\ this.a[p]])
    ELSE IF result.k = "bool"
    THEN BoolArr([p \in 1..Len(result.a) |-> result.a[p] /\ this.a[1]])
    ELSE IF this.k = "bool"
    THEN BoolArr([p \in 1..Len(this.a) |-> result.a[1] /\ this.a[p]])
    ELSE PyBool(result.a[1] /\ this.a[1])

RECURSIVE compFrom(_, _, _, _, _)
\* the loop of Select._comp
compFrom(self, tokens, i, left, result) ==
    IF i >= Len(tokens) THEN result
    ELSE
      LET right == _evalNumeric(self, tokens[i + 1])
          this == CompareValues(tokens[i].s, left, right)
      IN  IF IsRaise(right) THEN right
          ELSE IF IsNone(right) THEN Raise("SelectionError")
          ELSE IF IsRaise(this) THEN this
          ELSE IF IsNone(result) THEN compFrom(self, tokens, i + 2, right, this)
          ELSE IF IsRaise(Times(result, this)) THEN Times(result, this)
          ELSE compFrom(self, tokens, i + 2, right, Times(result, this))

\* Select._comp: numeric comparisons
_comp(self, tokens) ==
    LET left == _evalNumeric(self, tokens[1])
    IN  IF Len(tokens) >= 3 /\ Len(tokens) % 2 # 1 THEN Raise("SelectionError")
        ELSE IF IsRaise(left) THEN left
        ELSE IF IsNone(left) THEN Raise("SelectionError")
        ELSE compFrom(self, tokens, 2, left, None)

\* the absolute value
Abs(a) == IF a < 0 THEN 0 - a ELSE a

\* a / b and a % b are numbers of the model: the quotient is whole, the
\* operands of % are not negative and b is not 0
Whole(op, a, b) ==
    CASE op = "/" -> b # 0 /\ \E q \in (0 - Abs(a))..Abs(a) : q * b = a
      [] op = "%" -> b > 0 /\ a >= 0
      [] OTHER    -> TRUE

\* BINOP_MAP[op] on two numbers, for the arithmetic operators
Arith(op, a, b) ==
    CASE op = "+" -> a + b
      [] op = "-" -> a - b
      [] op = "*" -> a * b
      [] op = "/" -> CHOOSE q \in (0 - Abs(a))..Abs(a) : q * b = a
      [] OTHER    -> a % b

\* BINOP_MAP[op] on the operands paired by numpy broadcasting
ArithPairs(op, pairs, floats) ==
    IF \E p \in 1..Len(pairs) : ~Whole(op, pairs[p][1], pairs[p][2])
    THEN IF floats /\ pairs[1][2] = 0 THEN Raise("ZeroDivisionError")
         ELSE Raise("NotModelled")
    ELSE IF floats THEN Float(Arith(op, pairs[1][1], pairs[1][2]))
    ELSE NumArr([p \in 1..Len(pairs) |-> Arith(op, pairs[p][1], pairs[p][2])])

\* BINOP_MAP[op](left, right) for the arithmetic operators: two floats
\* give a float, else an array; boolean operands are not modelled
ArithValues(op, left, right) ==
    IF left.k = "bool" \/ right.k = "bool" THEN Raise("NotModelled")
    ELSE IF left.k = "float" /\ right.k = "float"
    THEN ArithPairs(op, <<<<left.a[1], right.a[1]>>>>, TRUE)
    ELSE IF left.k = "float" \/ (right.k # "float" /\ Len(left.a) = 1)
    THEN ArithPairs(op, [p \in 1..Len(right.a) |-> <<left.a[1], right.a[p]>>],
                    FALSE)
    ELSE IF right.k = "float" \/ Len(right.a) = 1
    THEN ArithPairs(op, [p \in 1..Len(left.a) |-> <<left.a[p], right.a[1]>>],
                    FALSE)
    ELSE IF Len(left.a) # Len(right.a) THEN Raise("ValueError")
    ELSE ArithPairs(op, [p \in 1..Len(left.a) |-> <<left.a[p], right.a[p]>>],
                    FALSE)

\* the truth value of `right == 0.0`: of a Python bool for a float, of an
\* array of booleans for an array, which has none when it is longer than 1
EqualsZero(right) ==
    IF right.k = "float" THEN PyBool(right.a[1] = 0)
    ELSE IF Len(right.a) > 1 THEN Raise("ValueError")
    ELSE PyBool(Len(right.a) = 1 /\ Numbers(right)[1] = 0)

RECURSIVE mulFrom(_, _, _, _)

\* one round of the loop of Select._mul, right being the operand evaluated
mulStep(self, tokens, i, left, right) ==
    IF IsRaise(right) THEN right
    ELSE IF IsNone(right) THEN Raise("SelectionError")
    ELSE IF tokens[i].s = "/" /\ IsRaise(EqualsZero(right))
    THEN EqualsZero(right)
    ELSE IF tokens[i].s = "/" /\ EqualsZero(right).a[1]
    THEN Raise("SelectionError")
    ELSE IF IsRaise(ArithValues(tokens[i].s, left, right))
    THEN ArithValues(tokens[i].s, left, right)
    ELSE mulFrom(self, tokens, i + 2, ArithValues(tokens[i].s, left, right))

\* the loop of Select._mul
mulFrom(self, tokens, i, left) ==
    IF i >= Len(tokens) THEN left
    ELSE mulStep(self, tokens, i, left, _evalNumeric(self, tokens[i + 1]))

\* the first operand of _mul and of _add
FirstOperand(left) ==
    IF IsRaise(left) THEN left
    ELSE IF IsNone(left) THEN Raise("SelectionError")
    ELSE left

\* Select._mul: multiplications, divisions and remainders
_mul(self, tokens) ==
    IF IsRaise(FirstOperand(_evalNumeric(self, tokens[1])))
    THEN FirstOperand(_evalNumeric(self, tokens[1]))
    ELSE mulFrom(self, tokens, 2, _evalNumeric(self, tokens[1]))

RECURSIVE addFrom(_, _, _, _)

\* one round of the loop of Select._add, right being the operand evaluated
addStep(self, tokens, i, left, right) ==
    IF IsRaise(right) THEN right
    ELSE IF IsNone(right) THEN Raise("SelectionError")
    ELSE IF IsRaise(ArithValues(tokens[i].s, left, right))
    THEN ArithValues(tokens[i].s, left, right)
    ELSE addFrom(self, tokens, i + 2, ArithValues(tokens[i].s, left, right))

\* the loop of Select._add
addFrom(self, tokens, i, left) ==
    IF i >= Len(tokens) THEN left
    ELSE addStep(self, tokens, i, left, _evalNumeric(self, tokens[i + 1]))

\* Select._add: additions and subtractions
_add(self, tokens) ==
    IF IsRaise(FirstOperand(_evalNumeric(self, tokens[1])))
    THEN FirstOperand(_evalNumeric(self, tokens[1]))
    ELSE addFrom(self, tokens, 2, _evalNumeric(self, tokens[1]))

(***************************************************************************)
(* Boolean keywords and the combinators.                                   *)
(***************************************************************************)
\* expandBoolean: the token list a boolean keyword stands for, from the
\* entry KEYWORD_MAP holds for it
expandBoolean(keyword) ==
    IF keyword \in DOMAIN KEYWORD_MAP
    THEN LET e == KEYWORD_MAP[keyword]
             names == IF e.an_none THEN <<>>
                      ELSE (IF e.an_invert THEN <<Str(NOT)>> ELSE <<>>)
                           \o <<Str("name")>> \o e.atom_names
                           \o (IF e.rn_none THEN <<>> ELSE <<Str(AND)>>)
             resnames == IF e.rn_none THEN <<>>
                         ELSE (IF e.rn_invert THEN <<Str(NOT)>> ELSE <<>>)
                              \o <<Str("resname")>> \o Strs(e.residue_names)
         IN  names \o resnames
    ELSE IF keyword \in DOMAIN SECSTR_MAP
    THEN <<Str("secondary"), Str(SECSTR_MAP[keyword])>>
    ELSE <<Str(keyword)>>

\* the variable `previous` of _and and _or: None, one token, or a list
NoPrevious == [none |-> TRUE, list |-> FALSE, toks |-> <<>>]

\* previous after `current` is met and is not the operator
Extend(previous, current) ==
    IF previous.none THEN [none |-> FALSE, list |-> FALSE, toks |-> <<current>>]
    ELSE [none |-> FALSE, list |-> TRUE, toks |-> Append(previous.toks, current)]

\* Select._isValid (no keyword arguments are passed, no user data is set)
_isValid(previous) ==
    IF previous.none THEN FALSE
    ELSE IF ~previous.list
    THEN IsStr(previous.toks[1]) /\ isBooleanKeyword(previous.toks[1].s)
    ELSE /\ IsStr(previous.toks[1])
         /\ \/ isValuePairedKeyword(previous.toks[1].s)
            \/ previous.toks[1].s = NOT

\* selection[evalonly] = torf, for boolean arrays
SetAt(selection, evalonly, torf) ==
    BoolArr(Assign(selection.a, evalonly, torf.a))

\* evalonly[torf] that keeps every position of evalonly
KeepAll(evalonly, torf) == evalonly

\* evalonly[torf]: the positions of evalonly where torf is True
Narrow(evalonly, torf) == Take(evalonly, Nonzero(torf.a))

RECURSIVE _evaluate(_, _, _)
RECURSIVE _evalBoolean(_, _, _)
RECURSIVE _not(_, _, _)
RECURSIVE andLoop(_, _, _, _, _, _)
RECURSIVE orLoop(_, _, _, _, _, _)

\* `if torf is None: raise SelectionError(selstr)`
NotNone(torf) == IF IsNone(torf) THEN Raise("SelectionError") ELSE torf

\* the operand of _and and _or: an array is indexed by evalonly, tokens are
\* checked by _isValid and evaluated on evalonly
Operand(self, previous, evalonly) ==
    IF ~previous.none /\ ~previous.list /\ IsArray(previous.toks[1])
    THEN IF OutOfBounds(previous.toks[1].a, evalonly) THEN Raise("IndexError")
         ELSE [previous.toks[1] EXCEPT !.a = Restrict(@, evalonly)]
    ELSE IF ~_isValid(previous) THEN Raise("SelectionError")
    ELSE NotNone(_evaluate(self,
                           IF previous.list THEN List(previous.toks)
                           ELSE One(previous.toks[1]),
                           evalonly))

\* the code of Select._and after the loop, torf being the last operand
andLast(torf, evalonly, selection) ==
    IF IsRaise(torf) THEN torf
    ELSE IF IsNone(selection) THEN torf
    ELSE IF torf.k # "bool" \/ selection.k # "bool" THEN Raise("NotModelled")
    ELSE SetAt(selection, evalonly.idx, torf)

\* the body of the loop of Select._and when current is the operator, torf
\* being the operand before it
andStep(self, toks, i, evalonly, selection, torf) ==
    IF IsRaise(torf) THEN torf
    ELSE IF torf.k # "bool" THEN Raise("NotModelled")
    ELSE IF evalonly.none
    THEN andLoop(self, toks, i + 1, NoPrevious, Evalonly(Nonzero(torf.a)), torf)
    ELSE andLoop(self, toks, i + 1, NoPrevious,
                 Evalonly(Narrow(evalonly.idx, torf)),
                 SetAt(selection, evalonly.idx, torf))

\* the loop of Select._and over tokens[0], from token i on, and the code
\* after the loop
andLoop(self, toks, i, previous, evalonly, selection) ==
    IF i > Len(toks)
    THEN andLast(Operand(self, previous, evalonly), evalonly, selection)
    ELSE IF previous.none
    THEN andLoop(self, toks, i + 1, Extend(previous, toks[i]), evalonly,
                 selection)
    ELSE IF IsStr(toks[i]) /\ toks[i].s = AND
    THEN andStep(self, toks, i, evalonly, selection,
                 Operand(self, previous, evalonly))
    ELSE IF ~previous.list /\ ~IsStr(previous.toks[1])
    THEN Raise("AttributeError")
    ELSE andLoop(self, toks, i + 1, Extend(previous, toks[i]), evalonly,
                 selection)

\* Select._and(selstr, location, tokens): tokens is tokens[0]
_and(self, tokens) == andLoop(self, tokens, 1, NoPrevious, NoEvalonly, None)

\* the code of Select._or after the loop, torf being the last operand
orLast(torf, evalonly, selection) ==
    IF IsRaise(torf) THEN torf
    ELSE IF IsNone(selection) THEN Raise("TypeError")
    ELSE IF torf.k # "bool" \/ selection.k # "bool" THEN Raise("NotModelled")
    ELSE BoolArr(AssignTrue(selection.a, Narrow(evalonly.idx, torf)))

\* the body of the loop of Select._or when current is the operator, torf
\* being the operand before it
orStep(self, toks, i, evalonly, selection, torf) ==
    IF IsRaise(torf) THEN torf
    ELSE IF torf.k # "bool" THEN Raise("NotModelled")
    ELSE IF evalonly.none
    THEN orLoop(self, toks, i + 1, NoPrevious,
                Evalonly(Nonzero(Invert(torf.a))), torf)
    ELSE orLoop(self, toks, i + 1, NoPrevious,
                Evalonly(Narrow(evalonly.idx, torf)),
                BoolArr(AssignTrue(selection.a, Narrow(evalonly.idx, torf))))

\* the loop of Select._or over tokens[0], from token i on, and the code
\* after the loop
orLoop(self, toks, i, previous, evalonly, selection) ==
    IF i > Len(toks)
    THEN orLast(Operand(self, previous, evalonly), evalonly, selection)
    ELSE IF previous.none
    THEN orLoop(self, toks, i + 1, Extend(previous, toks[i]), evalonly,
                selection)
    ELSE IF IsStr(toks[i]) /\ toks[i].s = OR
    THEN orStep(self, toks, i, evalonly, selection,
                Operand(self, previous, evalonly))
    ELSE IF ~previous.list /\ ~IsStr(previous.toks[1])
    THEN Raise("AttributeError")
    ELSE orLoop(self, toks, i + 1, Extend(previous, toks[i]), evalonly,
                selection)

\* Select._or(selstr, location, tokens): tokens is tokens[0]
_or(self, tokens) == orLoop(self, tokens, 1, NoPrevious, NoEvalonly, None)

\* the variables evalonly and selection of Select._or
OrVars(evalonly, selection) == [evalonly |-> evalonly, selection |-> selection]

RECURSIVE orTrace(_, _, _, _, _, _)
\* the values of evalonly and selection of Select._or each time an operand
\* is about to be evaluated, in the loop from token i on and after the loop;
\* nothing follows an operand that raises or is not a boolean array
orTraceStep(self, toks, i, evalonly, selection, torf) ==
    IF IsRaise(torf) \/ torf.k # "bool" THEN <<>>
    ELSE IF evalonly.none
    THEN orTrace(self, toks, i + 1, NoPrevious,
                 Evalonly(Nonzero(Invert(torf.a))), torf)
    ELSE orTrace(self, toks, i + 1, NoPrevious,
                 Evalonly(Narrow(evalonly.idx, torf)),
                 BoolArr(AssignTrue(selection.a, Narrow(evalonly.idx, torf))))

orTrace(self, toks, i, previous, evalonly, selection) ==
    IF i > Len(toks) THEN <<OrVars(evalonly, selection)>>
    ELSE IF previous.none
    THEN orTrace(self, toks, i + 1, Extend(previous, toks[i]), evalonly,
                 selection)
    ELSE IF IsStr(toks[i]) /\ toks[i].s = OR
    THEN <<OrVars(evalonly, selection)>>
         \o orTraceStep(self, toks, i, evalonly, selection,
                        Operand(self, previous, evalonly))
    ELSE orTrace(self, toks, i + 1, Extend(previous, toks[i]), evalonly,
                 selection)

\* np.invert(torf) of Select._not
Inverted(torf) ==
    IF IsRaise(torf) \/ IsNone(torf) THEN torf
    ELSE IF torf.k # "bool" THEN Raise("TypeError")
    ELSE BoolArr(Invert(torf.a))

\* Select._not that returns an operand that is an array as it is
ArrayAsIs_not(self, tokens, evalonly) ==
    IF IsArray(tokens[2]) THEN tokens[2]
    ELSE Inverted(_evaluate(self, List(Tail(tokens)), evalonly))

\* Select._not(tokens, evalonly): tokens[0] is the operator
_not(self, tokens, evalonly) ==
    Inverted(IF IsArray(tokens[2]) THEN tokens[2]
             ELSE _evaluate(self, List(Tail(tokens)), evalonly))

\* torf[evalonly] of Select._evalBoolean
Restricted(torf, evalonly) ==
    IF ~(torf.k = "bool") THEN torf
    ELSE IF OutOfBounds(torf.a, evalonly) THEN Raise("IndexError")
    ELSE BoolArr(Restrict(torf.a, evalonly))

\* np.ones(n, np.bool) and np.zeros(n, np.bool)
Filled(n, b) == BoolArr([p \in 1..n |-> b])

\* Select._evalBoolean
_evalBoolean(self, keyword, evalonly) ==
    IF keyword \in {"all", "none"}
    THEN Filled(IF evalonly.none THEN n_atoms(self) ELSE Len(evalonly.idx),
                keyword = "all")
    ELSE Restricted(_and(self, expandBoolean(keyword)), evalonly)

\* Select._evaluate(tokens, evalonly)
_evaluate(self, tokens, evalonly) ==
    LET keyword == tokens.toks[1]
        values == Tail(tokens.toks)
    IN  IF ~tokens.list
        THEN IF IsStr(keyword)
             THEN IF isBooleanKeyword(keyword.s)
                  THEN _evalBoolean(self, keyword.s, evalonly)
                  ELSE None
             ELSE IF keyword.k \in {"bool", "num", "float"} THEN keyword
             ELSE Raise("TypeError")
        ELSE IF Len(tokens.toks) = 1
        THEN IF IsStr(keyword) /\ isBooleanKeyword(keyword.s)
             THEN _evalBoolean(self, keyword.s, evalonly)
             ELSE IF IsStr(keyword) /\ isNumericKeyword(keyword.s)
             THEN _evalNumeric(self, keyword)
             ELSE IF IsArray(keyword) THEN keyword
             ELSE IF keyword.k = "float" THEN keyword
             ELSE IF keyword.k = "pybool"
             THEN Float(IF keyword.a[1] THEN 1 ELSE 0)
             ELSE IF IsStr(keyword) /\ IsNumber(keyword.s)
             THEN Float(NumberOf[keyword.s])
             ELSE IF IsStr(keyword) THEN None
             ELSE Raise("TypeError")
        ELSE IF ~IsStr(keyword) THEN Raise("TypeError")
        ELSE IF isAlnumKeyword(keyword.s)
        THEN _evalAlnum(self, keyword.s, values, evalonly)
        ELSE IF keyword.s \in {"resnum", "resid"}
        THEN _resnum(self, values, evalonly)
        ELSE IF keyword.s = "index" THEN _index(self, values, evalonly)
        ELSE IF keyword.s = "serial" THEN _serial(self, values, evalonly)
        ELSE IF isFloatKeyword(keyword.s) \/ isIntKeyword(keyword.s)
        THEN _evalFloat(self, keyword.s, values, evalonly)
        ELSE IF keyword.s = NOT THEN _not(self, tokens.toks, evalonly)
        ELSE None

(***************************************************************************)
(* Selection strings.  A selection string is a sequence of units: words,   *)
(* the space " ", the parentheses and the comparison signs.  Words hold no *)
(* space and no parenthesis, so every substring the code searches for      *)
(* starts and ends at unit boundaries.                                     *)
(***************************************************************************)
RECURSIVE Replace(_, _, _)
\* str.replace(pat, rep): every occurrence, left to right, not overlapping
Replace(str, pat, rep) ==
    IF Len(str) < Len(pat) THEN str
    ELSE IF SubSeq(str, 1, Len(pat)) = pat
    THEN rep \o Replace(SubSeq(str, Len(pat) + 1, Len(str)), pat, rep)
    ELSE <<Head(str)>> \o Replace(Tail(str), pat, rep)

RECURSIVE Contains(_, _)
\* pat in str
Contains(str, pat) ==
    /\ Len(str) >= Len(pat)
    /\ \/ SubSeq(str, 1, Len(pat)) = pat
       \/ Contains(Tail(str), pat)

RECURSIVE ReplaceWhile(_, _, _)
\* while pat in selstr: selstr = selstr.replace(pat, rep)
ReplaceWhile(str, pat, rep) ==
    IF Contains(str, pat) THEN ReplaceWhile(Replace(str, pat, rep), pat, rep)
    ELSE str

RECURSIVE Strip(_)
\* str.strip()
Strip(str) ==
    IF str = <<>> THEN str
    ELSE IF Head(str) = " " THEN Strip(Tail(str))
    ELSE IF str[Len(str)] = " " THEN Strip(SubSeq(str, 1, Len(str) - 1))
    ELSE str

\* word between the characters a and b
Between(a, word, b) == <<a>> \o word \o <<b>>

\* the replacements of _prepareSelstr for `and` and for `or`; word and
\* symbol are sequences, of one unit, or of the characters of the word
Operators(str, word, symbol) ==
    ReplaceWhile(
        Replace(Replace(Replace(str, Between(")", word, "("),
                                     Between(")", symbol, "(")),
                        Between(" ", word, "("), Between(" ", symbol, "(")),
                Between(")", word, " "), Between(")", symbol, " ")),
        Between(" ", word, " "), Between(" ", symbol, " "))

\* the replacements of _prepareSelstr for `not`
Negations(str, word, symbol) ==
    ReplaceWhile(
        Replace(Replace(str, Between("(", word, " "),
                             Between("(", symbol, " ")),
                Between(" ", word, "("), Between(" ", symbol, "(")),
        Between(" ", word, " "), Between(" ", symbol, " "))

\* the operator words and their symbols, as units
UnitWords ==
    [and |-> <<"and">>, AND |-> <<AND>>, or |-> <<"or">>, OR |-> <<OR>>,
     not |-> <<"not">>, NOT |-> <<NOT>>]

\* the operator words and their symbols, character by character
CharWords ==
    [and |-> <<"a", "n", "d">>, AND |-> <<"&", "&", "&">>,
     or |-> <<"o", "r">>, OR |-> <<"|", "|">>,
     not |-> <<"n", "o", "t">>, NOT |-> <<"!", "!", "!">>]

\* the replacements of _prepareSelstr before the macros are substituted
Symbols(str, w) ==
    Negations(Operators(Operators(str, w.and, w.AND), w.or, w.OR),
              w.not, w.NOT)

\* the three replacements of _prepareSelstr for one macro
ExpandMacro(str, macro, body) ==
    LET s1 == Replace(str, <<" ", macro, " ">>, <<" ", "(">> \o body \o <<")", " ">>)
        s2 == Replace(s1, <<"(", macro, " ">>, <<"(", "(">> \o body \o <<")", " ">>)
    IN  Replace(s2, <<" ", macro, ")">>, <<" ", "(">> \o body \o <<")", ")">>)

RECURSIVE ExpandMacros(_, _, _)
\* the loop over MACROS.iterkeys() of _prepareSelstr
ExpandMacros(str, macros, names) ==
    IF names = {} THEN str
    ELSE LET macro == CHOOSE m \in names : TRUE
         IN  ExpandMacros(ExpandMacro(str, macro, macros[macro]), macros,
                          names \ {macro})

\* Select._prepareSelstr
_prepareSelstr(selstr) ==
    Strip(ExpandMacros(Symbols(<<" ">> \o selstr \o <<" ">>, UnitWords),
                       MACROS, DOMAIN MACROS))

\* Select._prepareSelstr on a string given character by character, when
\* MACROS is empty
PreparedChars(chars) == Strip(Symbols(<<" ">> \o chars \o <<" ">>, CharWords))

\* what the tokenizer reads: the units between the white space
Units(str) == SelectSeq(str, LAMBDA u : u # " ")

\* a unit matched by Word(shortlist)
IsWord(u) ==
    u \notin ({"(", ")", " ", AND, OR, NOT, "+", "-", "*", "/", "%"}
              \cup COMPARISONS)

\* results of the parse functions: the tokens matched up to pos (ok), no
\* match (fail), or an exception raised by a parse action (raise)
Ok(pos, out) == [st |-> "ok", pos |-> pos, out |-> out, n |-> 0]
Fail == [st |-> "fail", pos |-> 0, out |-> <<>>, n |-> 0]
Raised(err) == [st |-> "raise", pos |-> 0, out |-> <<err>>, n |-> 0]

RECURSIVE WordsEnd(_, _)
\* the position after the run of words that starts at pos
WordsEnd(toks, pos) ==
    IF pos <= Len(toks) /\ IsWord(toks[pos]) THEN WordsEnd(toks, pos + 1)
    ELSE pos

\* the units between double quotes of the model, with what
\* regularExpParseAction compiles them to
RegularExpressions ==
    [u \in {"\"C.\"", "\"O.*\"", "\"N\""} |->
        CASE u = "\"C.\""  -> Anchored("C.", <<"C">>, 1)
          [] u = "\"O.*\"" -> Anchored("O.*", <<"O">>, -1)
          [] OTHER         -> Anchored("N", <<"N">>, 0)]

\* the grave accent, which a string of this module cannot hold, and a word
\* between two of them
GRAVE == "<grave accent>"
Graved(w) == GRAVE \o w \o GRAVE

\* the units between grave accents of the model, with the string between
\* the accents
SpecialChars ==
    [u \in {Graved("CA"), Graved("CB")} |->
        IF u = Graved("CA") THEN "CA" ELSE "CB"]

\* the token of a unit matched by Word(shortlist) | regularexp |
\* specialchars, after the parse actions of the last two
Literal(u) ==
    IF u \in DOMAIN RegularExpressions THEN ReTok(RegularExpressions[u])
    ELSE IF u \in DOMAIN SpecialChars THEN Str(SpecialChars[u])
    ELSE Str(u)

\* the tokens of OneOrMore(Word(shortlist) | regularexp | specialchars)
Literals(seq) == [p \in 1..Len(seq) |-> Literal(seq[p])]

(***************************************************************************)
(* The unary operators: distance based selections and expansions.          *)
(***************************************************************************)
\* the strings that Regex('(ex)?within [0-9]+\.?[0-9]* of') and
\* Regex('same [a-z]+ as') match, written from their words
WithinOf(op, number) == op \o " " \o number \o " of"
SameAs(what) == "same " \o what \o " as"

\* the words of lower case letters that follow `same` in the model
LowerWords == {"residue", "chain", "segment", "atom"}

\* token.split()[1] of the token of a unary operator
SecondWord(token) ==
    CHOOSE w \in DOMAIN NumberOf \cup LowerWords :
        token \in {WithinOf("within", w), WithinOf("exwithin", w), SameAs(w)}

\* token.startswith('same') and token.startswith('exwithin')
StartsWithSame(token) == \E w \in LowerWords : token = SameAs(w)
StartsWithExwithin(token) ==
    \E w \in DOMAIN NumberOf : token = WithinOf("exwithin", w)

\* the square of the distance of two points
Dist2(a, b) ==
    (a[1] - b[1]) * (a[1] - b[1]) + (a[2] - b[2]) * (a[2] - b[2])
    + (a[3] - b[3]) * (a[3] - b[3])

\* kdtree.search(center, radius) and kdtree.get_indices(): the positions of
\* the points of the tree no farther than radius from center
Search(points, center, radius) ==
    {i \in 1..Len(points) : Dist2(points[i], center) <= radius * radius}

\* `if other or len(which) < 20` of Select._within
SparseBelow == 20

\* Select._within with few reference atoms that unsets the reference atoms
\* whether or not exclude is set
AlwaysExclude_WithinSparse(self, which, within, exclude) ==
    LET near == [p \in 1..n_atoms(self) |->
                    \E i \in 1..Len(which) :
                        Dist2(_getCoords(self)[p], _getCoords(self)[which[i]])
                            <= within * within]
    IN  BoolArr([p \in 1..n_atoms(self) |-> near[p] /\ p \notin Range(which)])

\* Select._within with few reference atoms: the tree of the atom group is
\* searched around each reference atom
WithinSparse(self, which, within, exclude) ==
    LET coords == _getCoords(self)
        tree == [q \in 1..self.n |-> GroupCoords(self, q)]
        found == UNION {Search(tree, coords[which[i]], within) :
                            i \in 1..Len(which)}
        torf == IF self.ag THEN [q \in 1..self.n |-> q \in found]
                ELSE [p \in 1..Len(self.indices) |->
                         (self.indices[p] + 1) \in found]
    IN  BoolArr([p \in 1..Len(torf) |->
                    torf[p] /\ ~(exclude /\ p \in Range(which))])

\* Select._within with many reference atoms that sets the reference atoms
\* whether or not exclude is set
AlwaysInclude_WithinDense(self, which, within, exclude) ==
    BoolArr([p \in 1..n_atoms(self) |->
                \/ p \in Range(which)
                \/ \E i \in 1..Len(which) :
                       Dist2(_getCoords(self)[p], _getCoords(self)[which[i]])
                           <= within * within])

\* Select._within with many reference atoms: the tree of the reference
\* atoms is searched around each of the other atoms
WithinDense(self, which, within, exclude) ==
    LET coords == _getCoords(self)
        tree == Take(coords, which)
    IN  BoolArr([p \in 1..n_atoms(self) |->
                    IF p \in Range(which) THEN ~exclude
                    ELSE Search(tree, coords[p], within) # {}])

\* Select._within after `which` is evaluated
WithinWhich(self, which, within, exclude) ==
    IF IsRaise(which) THEN which
    ELSE IF which.k # "bool" THEN None
    ELSE IF \E p \in 1..Len(which.a) : which.a[p] /\ p > n_atoms(self)
    THEN Raise("IndexError")
    ELSE IF Len(Nonzero(which.a)) < SparseBelow
    THEN WithinSparse(self, Nonzero(which.a), within, exclude)
    ELSE WithinDense(self, Nonzero(which.a), within, exclude)

\* Select._within(tokens, exclude): tokens[0] is the operator
_within(self, tokens, exclude) ==
    WithinWhich(self,
                IF IsArray(tokens[2]) THEN tokens[2]
                ELSE _evaluate(self, List(Tail(tokens)), NoEvalonly),
                NumberOf[SecondWord(tokens[1].s)], exclude)

\* Select._evalFloat(keyword, values) with an array of values
_evalFloatArray(self, keyword, values) ==
    BoolArr(RangeMask(_getData(self, keyword),
                      [q \in 1..Len(values) |-> NumItem(values[q])]))

\* np.unique(data[which]) for a boolean array which
Unique(data, which) ==
    SetToSeq({data[Nonzero(which)[q]] : q \in 1..Len(Nonzero(which))})

\* Select._sameas that expands to the group of the first selected atom only
FirstGroup_SameWhich(self, what, which) ==
    IF ~(which.k = "bool" /\ what \in {"residue", "chain", "segment"})
    THEN None
    ELSE LET keyword == CASE what = "residue" -> "resindex"
                          [] what = "chain"   -> "chindex"
                          [] OTHER            -> "segindex"
             data == _getData(self, keyword)
         IN  BoolArr([p \in 1..Len(data) |->
                        /\ Nonzero(which.a) # <<>>
                        /\ data[p] = data[Nonzero(which.a)[1]]])

\* Select._sameas after `which` is evaluated
SameWhich(self, what, which) ==
    IF IsRaise(which) THEN which
    ELSE IF ~IsArray(which) THEN None
    ELSE IF what \notin {"residue", "chain", "segment"}
    THEN Raise("SelectionError")
    ELSE IF which.k # "bool" THEN Raise("NotModelled")
    ELSE IF \E p \in 1..Len(which.a) : which.a[p] /\ p > n_atoms(self)
    THEN Raise("IndexError")
    ELSE LET keyword == CASE what = "residue" -> "resindex"
                          [] what = "chain"   -> "chindex"
                          [] OTHER            -> "segindex"
         IN  _evalFloatArray(self, keyword,
                             Unique(_getData(self, keyword), which.a))

\* Select._sameas(token): token[0] is the operator
_sameas(self, token) ==
    SameWhich(self, SecondWord(token[1].s),
              IF IsArray(token[2]) THEN token[2]
              ELSE _evaluate(self, List(Tail(token)), NoEvalonly))

\* Select._defaultAction
_defaultAction(self, tokens) ==
    IF IsArray(tokens[1]) THEN tokens[1]
    ELSE NotNone(_evaluate(self, List(tokens), NoEvalonly))

\* Select._unary
_unary(self, tokens) ==
    NotNone(IF tokens[1].s = NOT THEN _not(self, tokens, NoEvalonly)
            ELSE IF StartsWithSame(tokens[1].s) THEN _sameas(self, tokens)
            ELSE _within(self, tokens, StartsWithExwithin(tokens[1].s)))

\* the unary operator matched at pos, Keyword(NOT) or one of the two
\* Regex: the number of units it spans (0 for no match) and its token
UnaryOperator(toks, pos) ==
    IF pos <= Len(toks) /\ toks[pos] = NOT THEN [n |-> 1, tok |-> NOT]
    ELSE IF pos + 2 > Len(toks) THEN [n |-> 0, tok |-> ""]
    ELSE IF /\ toks[pos] = "same"
            /\ toks[pos + 1] \in LowerWords
            /\ toks[pos + 2] = "as"
    THEN [n |-> 3, tok |-> SameAs(toks[pos + 1])]
    ELSE IF /\ toks[pos] \in {"within", "exwithin"}
            /\ IsNumber(toks[pos + 1])
            /\ toks[pos + 2] = "of"
    THEN [n |-> 3, tok |-> WithinOf(toks[pos], toks[pos + 1])]
    ELSE [n |-> 0, tok |-> ""]

\* the levels with the unary operators written after &&& in the table, so
\* that they bind less than &&&
UnaryAfterAnd_Below(lvl) ==
    CASE lvl = "or"    -> "unary"
      [] lvl = "unary" -> "and"
      [] lvl = "and"   -> "comp"
      [] lvl = "comp"  -> "add"
      [] lvl = "add"   -> "mul"
      [] OTHER         -> "base"

\* the levels of operatorPrecedence that are modelled, from the one that
\* binds least: ||, &&&, the unary operators, the comparisons, + and -,
\* and * / %; their operands are expressions of the level below, down to
\* the operand "base" (no selection string of the model has a power, a
\* sign or a function)
Below(lvl) ==
    CASE lvl = "or"    -> "and"
      [] lvl = "and"   -> "unary"
      [] lvl = "unary" -> "comp"
      [] lvl = "comp"  -> "add"
      [] lvl = "add"   -> "mul"
      [] OTHER         -> "base"

\* the operators of a binary level
LevelOps(lvl) ==
    CASE lvl = "or"  -> {OR}
      [] lvl = "and" -> {AND}
      [] lvl = "add" -> {"+", "-"}
      [] lvl = "mul" -> {"*", "/", "%"}
      [] OTHER       -> COMPARISONS

\* the parse action of a binary level
ParseAction(self, lvl, tokens) ==
    CASE lvl = "or"  -> _or(self, tokens)
      [] lvl = "and" -> _and(self, tokens)
      [] lvl = "add" -> _add(self, tokens)
      [] lvl = "mul" -> _mul(self, tokens)
      [] OTHER       -> _comp(self, tokens)

\* the tokens of a match are replaced by what its parse action returns; an
\* exception of the action ends the parse
Acted(value, pos) == IF IsRaise(value) THEN Raised(value) ELSE Ok(pos, <<value>>)

RECURSIVE ParseRet(_, _, _)
RECURSIVE ParseLevel(_, _, _, _)
RECURSIVE BinaryRest(_, _, _, _, _, _)

\* ( expression ) : the closing parenthesis after the expression r
Closed(toks, r) ==
    IF r.st # "ok" THEN r
    ELSE IF r.pos <= Len(toks) /\ toks[r.pos] = ")" THEN Ok(r.pos + 1, r.out)
    ELSE Fail

\* the operand of operatorPrecedence: one or more words, or ( expression )
ParseBase(self, toks, pos) ==
    IF pos > Len(toks) THEN Fail
    ELSE IF IsWord(toks[pos])
    THEN Ok(WordsEnd(toks, pos),
            Literals(SubSeq(toks, pos, WordsEnd(toks, pos) - 1)))
    ELSE IF toks[pos] = "(" THEN Closed(toks, ParseRet(self, toks, pos + 1))
    ELSE Fail

\* one more (operator operand) of a binary level, r being the operand
BinaryMore(self, toks, pos, lvl, acc, n, r) ==
    IF r.st = "ok"
    THEN BinaryRest(self, toks, r.pos, lvl,
                    acc \o <<Str(toks[pos])>> \o r.out, n + 1)
    ELSE IF r.st = "raise" THEN r
    ELSE [Ok(pos, acc) EXCEPT !.n = n]

\* the (operator operand)* of a binary level
BinaryRest(self, toks, pos, lvl, acc, n) ==
    IF pos <= Len(toks) /\ toks[pos] \in LevelOps(lvl)
    THEN BinaryMore(self, toks, pos, lvl, acc, n,
                    ParseLevel(self, toks, pos + 1, Below(lvl)))
    ELSE [Ok(pos, acc) EXCEPT !.n = n]

\* a binary level has matched first and rest: with no operator the operand
\* stands for itself, else the parse action of the level is run
BinaryDone(self, lvl, first, rest) ==
    IF rest.st # "ok" THEN rest
    ELSE IF rest.n = 0 THEN first
    ELSE Acted(ParseAction(self, lvl, rest.out), rest.pos)

\* a binary level after its first operand
BinaryFrom(self, toks, lvl, first) ==
    IF first.st # "ok" THEN first
    ELSE BinaryDone(self, lvl, first,
                    BinaryRest(self, toks, first.pos, lvl, first.out, 0))

\* the unary level after the operand r of the operator op matched at pos,
\* parse action _unary; without an operand the level below is tried at pos
UnaryDone(self, toks, pos, op, r) ==
    IF r.st = "raise" THEN r
    ELSE IF r.st = "fail" THEN ParseLevel(self, toks, pos, Below("unary"))
    ELSE Acted(_unary(self, <<Str(op.tok)>> \o r.out), r.pos)

\* an expression of a level of operatorPrecedence
ParseLevel(self, toks, pos, lvl) ==
    IF lvl = "base" THEN ParseBase(self, toks, pos)
    ELSE IF lvl = "unary"
    THEN IF UnaryOperator(toks, pos).n > 0
         THEN UnaryDone(self, toks, pos, UnaryOperator(toks, pos),
                        ParseLevel(self, toks, pos + UnaryOperator(toks, pos).n,
                                   lvl))
         ELSE ParseLevel(self, toks, pos, Below(lvl))
    ELSE BinaryFrom(self, toks, lvl, ParseLevel(self, toks, pos, Below(lvl)))

\* the whole expression r, parse action _defaultAction
RetDone(self, r) ==
    IF r.st # "ok" THEN r ELSE Acted(_defaultAction(self, r.out), r.pos)

\* the expression operatorPrecedence returns
ParseRet(self, toks, pos) == RetDone(self, ParseLevel(self, toks, pos, "or"))

\* parseAll=True and .asList()[0] on the result r of the parse of n units;
\* a ParseException becomes SelectionError in _evalSelstr
Parsed(n, r) ==
    IF r.st = "raise" THEN r.out[1]
    ELSE IF r.st = "fail" \/ r.pos # n + 1 THEN Raise("SelectionError")
    ELSE r.out[1]

\* self._tokenizer.parseString(selstr, parseAll=True).asList()[0]
parseString(self, selstr) ==
    Parsed(Len(Units(selstr)), ParseRet(self, Units(selstr), 1))

RECURSIVE SplitCount(_, _)
\* len(selstr.split()): the number of runs of units without white space
SplitCount(str, inword) ==
    IF str = <<>> THEN 0
    ELSE IF Head(str) = " " THEN SplitCount(Tail(str), FALSE)
    ELSE (IF inword THEN 0 ELSE 1) + SplitCount(Tail(str), TRUE)

\* the test of _evalSelstr for a single word that is no macro
SingleWord(selstr) ==
    /\ SplitCount(selstr, FALSE) = 1
    /\ "(" \notin Range(selstr)
    /\ ")" \notin Range(selstr)
    /\ ~(Len(selstr) = 1 /\ selstr[1] \in DOMAIN MACROS)

\* Select._evalSelstr
_evalSelstr(self, rawselstr) ==
    IF SingleWord(Strip(rawselstr))
    THEN IF Len(Strip(rawselstr)) = 1 /\ isBooleanKeyword(Strip(rawselstr)[1])
         THEN _evalBoolean(self, Strip(rawselstr)[1], NoEvalonly)
         ELSE Raise("SelectionError")
    ELSE parseString(self, _prepareSelstr(rawselstr))

\* the checks of getBoolArray on what _evalSelstr returns
Checked(torf) ==
    IF IsRaise(torf) THEN torf
    ELSE IF ~IsArray(torf) THEN Raise("SelectionError")
    ELSE IF torf.k # "bool" THEN Raise("SelectionError")
    ELSE torf

\* Select.getBoolArray(atoms, selstr): the array returned or the exception
\* raised; atoms is an Atomic instance and selstr a string
getBoolArray(atoms, selstr) == Checked(_evalSelstr(atoms, selstr))

\* the checks of getIndices on what getBoolArray returns: torf.nonzero()[0]
Indexed(torf) ==
    IF IsRaise(torf) THEN torf
    ELSE NumArr([i \in 1..Len(Nonzero(torf.a)) |-> Nonzero(torf.a)[i] - 1])

\* Select.getIndices(atoms, selstr)
getIndices(atoms, selstr) == Indexed(getBoolArray(atoms, selstr))

\* a Selection of the atom group with the given indices
Selection(indices) ==
    [k |-> "selection", s |-> "", a |-> indices, re |-> NoRegex]

\* Select.select after getIndices: the indices are taken from the indices
\* of a subset, no index gives None
Selected(atoms, indices) ==
    IF IsRaise(indices) THEN indices
    ELSE IF ~atoms.ag /\ \E i \in 1..Len(indices.a) :
                             indices.a[i] + 1 > Len(atoms.indices)
    THEN Raise("IndexError")
    ELSE IF Len(indices.a) = 0 THEN None
    ELSE IF atoms.ag THEN Selection(indices.a)
    ELSE Selection([i \in 1..Len(indices.a) |->
                       atoms.indices[indices.a[i] + 1]])

\* Select.select(atoms, selstr) for an atom group, a Selection or an Atom
select(atoms, selstr) == Selected(atoms, getIndices(atoms, selstr))

(***************************************************************************)
(* Reserved words and macros.                                              *)
(***************************************************************************)
\* the names of FUNCTION_MAP
FUNCTION_MAP ==
    {"sqrt", "sq", "abs", "floor", "ceil", "sin", "cos", "tan", "asin",
     "acos", "atan", "sinh", "cosh", "tahn", "exp", "log", "log10"}

\* RESERVED: the words listed in the module and the synonyms (the keys of
\* the imported field tables are keywords or not used as macro names here)
RESERVED ==
    {"and", "or", "not", "within", "of", "exwithin", "same", "as"}
    \cup DOMAIN KEYWORDS_SYNONYMS
    \cup {"n_atoms", "n_csets", "cslabels", "title", "coordinates", "bonds",
          "bmap", "numbonds"}

isReserved(word) ==
    word \in RESERVED \/ isKeyword(word) \/ word \in FUNCTION_MAP

\* the expression `functions` of Select.__init__, pp.Keyword(func) for
\* each func of FUNCTION_MAP.keys(): it matches the word as a function
functions(word) == word \in FUNCTION_MAP

isMacro(word) == word \in DOMAIN MACROS

\* the atom group defSelectionMacro tests a selection string on
ATOMGROUP == AtomGroup

LowerLetters ==
    {"a", "b", "c", "d", "e", "f", "g", "h", "i", "j", "k", "l", "m", "n",
     "o", "p", "q", "r", "s", "t", "u", "v", "w", "x", "y", "z"}
UpperLetters ==
    {"A", "B", "C", "D", "E", "F", "G", "H", "I", "J", "K", "L", "M", "N",
     "O", "P", "Q", "R", "S", "T", "U", "V", "W", "X", "Y", "Z"}

\* the names the model passes to defSelectionMacro, with their characters
MacroNameChars ==
    [n \in {"cbeta", "of", "sqrt", "protein", "cBeta", "cb1"} |->
        CASE n = "cbeta"   -> <<"c", "b", "e", "t", "a">>
          [] n = "of"      -> <<"o", "f">>
          [] n = "sqrt"    -> <<"s", "q", "r", "t">>
          [] n = "protein" -> <<"p", "r", "o", "t", "e", "i", "n">>
          [] n = "cBeta"   -> <<"c", "B", "e", "t", "a">>
          [] OTHER         -> <<"c", "b", "1">>]

\* name.isalpha() and name.islower()
IsAlphaLower(name) ==
    LET chars == MacroNameChars[name]
    IN  /\ chars # <<>>
        /\ Range(chars) \subseteq LowerLetters \cup UpperLetters
        /\ Range(chars) \cap LowerLetters # {}
        /\ Range(chars) \cap UpperLetters = {}

(***************************************************************************)
(* The calls of the model.  `call` is the last call made, with what it     *)
(* returned or raised and what it logged.                                  *)
(***************************************************************************)
Call(op, name, arg, atoms, ret, log) ==
    [op |-> op, name |-> name, arg |-> arg, atoms |-> atoms, ret |-> ret,
     log |-> log]

\* arguments of setKeywordResnames: a keyword and a list of residue names,
\* or something that is not a list, tuple or set
ListArg(items) == [type |-> "list", items |-> items]
NotAList == [type |-> "str", items |-> <<>>]

SetKeywordResnamesArgs ==
    {<<"acidic", ListArg(<<"ASP">>)>>,
     <<"acidic", ListArg(<<"GLU", "HEM">>)>>,
     <<"basic", ListArg(<<"ALA">>)>>,
     <<"protein", ListArg(<<"ALA", "ASP", "GLU", "HOH">>)>>,
     <<"cyclic", ListArg(<<"ALA", "HIS">>)>>,
     <<"small", ListArg(<<"LYS">>)>>,
     <<"medium", ListArg(<<"GLY", "GLU">>)>>,
     <<"hydrophobic", ListArg(<<"ASP", "LYS">>)>>,
     <<"buried", ListArg(<<"GLY">>)>>,
     <<"foo", ListArg(<<"ALA">>)>>,
     <<"acidic", NotAList>>}
    \cup {<<k, ListArg(<<"ASP">>)>> : k \in KEYWORD_RESNAMES_READONLY}

\* setKeywordResnames(keyword, resnames); keyword is a string
setKeywordResnames(keyword, resnames) ==
    /\ ncalls < MaxCalls
    /\ ncalls' = ncalls + 1
    /\ IF resnames.type # "list"
       THEN /\ call' = Call("setKeywordResnames", keyword, resnames, AtomGroup,
                            Raise("TypeError"), "")
            /\ UNCHANGED <<catalog, MACROS>>
       ELSE IF keyword \in KEYWORD_RESNAMES_READONLY
       THEN /\ call' = Call("setKeywordResnames", keyword, resnames, AtomGroup,
                            None, "warning")
            /\ UNCHANGED <<catalog, MACROS>>
       ELSE IF keyword \in DOMAIN KEYWORD_RESNAMES
       THEN /\ KEYWORD_RESNAMES' =
                   _setReadonlyResidueNames(
                       DictSet(KEYWORD_RESNAMES, keyword,
                               SetToSeq(Range(resnames.items))))
            /\ call' = Call("setKeywordResnames", keyword, resnames, AtomGroup,
                            None, "")
            /\ UNCHANGED <<KEYWORD_MAP, KEYWORD_NAME_REGEX, BACKBONE_ATOM_NAMES,
                           BACKBONE_FULL_ATOM_NAMES, MACROS>>
       ELSE /\ call' = Call("setKeywordResnames", keyword, resnames, AtomGroup,
                            Raise("ValueError"), "")
            /\ UNCHANGED <<catalog, MACROS>>

\* arguments of setAtomNameRegex: a name and a regular expression string
\* that compiles to the given pattern, or does not compile
Compiles(regex) == [ok |-> TRUE, regex |-> regex]
DoesNotCompile == [ok |-> FALSE, regex |-> NoRegex]

SetAtomNameRegexArgs ==
    {<<"carbon", Compiles(Regex("N.*", {}, <<"N">>))>>,
     <<"nitrogen", Compiles(Regex("[0-9]?C.*", Digits09, <<"C">>))>>,
     <<"foo", Compiles(Regex("N.*", {}, <<"N">>))>>,
     <<"name", Compiles(Regex("N.*", {}, <<"N">>))>>,
     <<"oxygen", DoesNotCompile>>}

\* setAtomNameRegex(name, regex) that takes a name that is not an element
AnyName_setAtomNameRegex(name, regex) ==
    /\ ncalls < MaxCalls
    /\ ncalls' = ncalls + 1
    /\ IF ~regex.ok
       THEN /\ call' = Call("setAtomNameRegex", name, regex, AtomGroup,
                            Raise("ValueError"), "")
            /\ UNCHANGED <<catalog, MACROS>>
       ELSE /\ KEYWORD_NAME_REGEX' =
                   DictSet(KEYWORD_NAME_REGEX, name, regex.regex)
            /\ call' = Call("setAtomNameRegex", name, regex, AtomGroup,
                            None, "")
            /\ UNCHANGED <<KEYWORD_RESNAMES, KEYWORD_MAP, BACKBONE_ATOM_NAMES,
                           BACKBONE_FULL_ATOM_NAMES, MACROS>>

\* setAtomNameRegex(name, regex); name and regex are strings
setAtomNameRegex(name, regex) ==
    /\ ncalls < MaxCalls
    /\ ncalls' = ncalls + 1
    /\ IF name \notin DOMAIN KEYWORD_NAME_REGEX
       THEN /\ call' = Call("setAtomNameRegex", name, regex, AtomGroup,
                            Raise("ValueError"), "")
            /\ UNCHANGED <<catalog, MACROS>>
       ELSE IF ~regex.ok
       THEN /\ call' = Call("setAtomNameRegex", name, regex, AtomGroup,
                            Raise("ValueError"), "")
            /\ UNCHANGED <<catalog, MACROS>>
       ELSE /\ KEYWORD_NAME_REGEX' =
                   [KEYWORD_NAME_REGEX EXCEPT ![name] = regex.regex]
            /\ call' = Call("setAtomNameRegex", name, regex, AtomGroup,
                            None, "")
            /\ UNCHANGED <<KEYWORD_RESNAMES, KEYWORD_MAP, BACKBONE_ATOM_NAMES,
                           BACKBONE_FULL_ATOM_NAMES, MACROS>>

SetBackboneAtomNamesArgs ==
    {<<ListArg(<<"CA", "CB">>), FALSE>>,
     <<ListArg(<<"N", "H">>), TRUE>>,
     <<NotAList, FALSE>>}

\* setBackboneAtomNames(backbone_atom_names, full)
setBackboneAtomNames(backbone_atom_names, full) ==
    /\ ncalls < MaxCalls
    /\ ncalls' = ncalls + 1
    /\ IF backbone_atom_names.type # "list"
       THEN /\ call' = Call("setBackboneAtomNames", "", backbone_atom_names,
                            AtomGroup, Raise("TypeError"), "")
            /\ UNCHANGED <<catalog, MACROS>>
       ELSE LET bbfull == IF full THEN Range(backbone_atom_names.items)
                          ELSE BACKBONE_FULL_ATOM_NAMES
                bb == IF full THEN BACKBONE_ATOM_NAMES
                      ELSE Range(backbone_atom_names.items)
            IN  /\ BACKBONE_FULL_ATOM_NAMES' = bbfull
                /\ BACKBONE_ATOM_NAMES' = bb
                /\ KEYWORD_MAP' = _buildKeywordMap(KEYWORD_MAP, KEYWORD_RESNAMES,
                                                   KEYWORD_NAME_REGEX, bb, bbfull)
                /\ call' = Call("setBackboneAtomNames", "", backbone_atom_names,
                                AtomGroup, None, "")
                /\ UNCHANGED <<KEYWORD_RESNAMES, KEYWORD_NAME_REGEX, MACROS>>

CBetaBody == <<"name", " ", "CB", " ", "and", " ", "protein">>

DefSelectionMacroArgs ==
    {<<"cbeta", CBetaBody>>,
     <<"cbeta", <<"name", " ", "CA">>>>,
     <<"cbeta", <<"foo">>>>,
     <<"of", <<"name", " ", "CB">>>>,
     <<"sqrt", <<"name", " ", "CA">>>>,
     <<"protein", <<"name", " ", "CB">>>>,
     <<"cBeta", <<"name", " ", "CB">>>>,
     <<"cb1", <<"name", " ", "CB">>>>}

\* defSelectionMacro after ATOMGROUP.select(selstr), test being its outcome
Tested(name, selstr, test) ==
    IF IsRaise(test) /\ test.s = "SelectionError"
    THEN /\ call' = Call("defSelectionMacro", name, selstr, AtomGroup,
                         None, "warning")
         /\ UNCHANGED MACROS
    ELSE IF IsRaise(test)
    THEN /\ call' = Call("defSelectionMacro", name, selstr, AtomGroup,
                         test, "")
         /\ UNCHANGED MACROS
    ELSE /\ MACROS' = DictSet(MACROS, name, selstr)
         /\ call' = Call("defSelectionMacro", name, selstr, AtomGroup,
                         None, "info")

\* defSelectionMacro(name, selstr); name and selstr are strings
defSelectionMacro(name, selstr) ==
    /\ ncalls < MaxCalls
    /\ ncalls' = ncalls + 1
    /\ UNCHANGED catalog
    /\ IF isKeyword(name) \/ ~IsAlphaLower(name)
       THEN /\ call' = Call("defSelectionMacro", name, selstr, AtomGroup,
                            Raise("ValueError"), "")
            /\ UNCHANGED MACROS
       ELSE Tested(name, selstr, getBoolArray(ATOMGROUP, selstr))

DelSelectionMacroArgs == {"cbeta", "of", "sqrt"}

\* delSelectionMacro(name) that reports the removal and keeps the macro
Keeps_delSelectionMacro(name) ==
    /\ ncalls < MaxCalls
    /\ ncalls' = ncalls + 1
    /\ UNCHANGED <<catalog, MACROS>>
    /\ call' = Call("delSelectionMacro", name, <<>>, AtomGroup, None,
                    IF name \in DOMAIN MACROS THEN "info" ELSE "warning")

\* delSelectionMacro(name)
delSelectionMacro(name) ==
    /\ ncalls < MaxCalls
    /\ ncalls' = ncalls + 1
    /\ UNCHANGED catalog
    /\ IF name \in DOMAIN MACROS
       THEN /\ MACROS' = [m \in DOMAIN MACROS \ {name} |-> MACROS[m]]
            /\ call' = Call("delSelectionMacro", name, <<>>, AtomGroup,
                            None, "info")
       ELSE /\ UNCHANGED MACROS
            /\ call' = Call("delSelectionMacro", name, <<>>, AtomGroup,
                            None, "warning")

\* Select.getBoolArray(atoms, selstr) called by the user
GetBoolArray(atoms, selstr) ==
    /\ ncalls < MaxCalls
    /\ ncalls' = ncalls + 1
    /\ call' = Call("getBoolArray", "", selstr, atoms,
                    getBoolArray(atoms, selstr), "")
    /\ UNCHANGED <<catalog, MACROS>>

\* the targets of the selections: the atom group and subsets of it
Targets == {AtomGroup, Subset(<<0>>), Subset(<<1>>), Subset(<<0, 2, 4>>)}

\* the selection strings evaluated between the catalog and macro calls
Queries ==
    {<<"charged">>, <<"acidic">>, <<"basic">>, <<"carbon">>, <<"nitrogen">>,
     <<"cbeta">>, <<"cbeta", " ", "or", " ", "name", " ", "N">>,
     <<"of">>}

Init ==
    /\ KEYWORD_RESNAMES = _setReadonlyResidueNames(KEYWORD_RESNAMES_0)
    /\ KEYWORD_MAP = KEYWORD_MAP_0
    /\ KEYWORD_NAME_REGEX = KEYWORD_NAME_REGEX_0
    /\ BACKBONE_ATOM_NAMES = BACKBONE_ATOM_NAMES_0
    /\ BACKBONE_FULL_ATOM_NAMES = BACKBONE_FULL_ATOM_NAMES_0
    /\ MACROS = EmptyDict
    /\ call = Call("import", "", <<>>, AtomGroup, None, "")
    /\ ncalls = 0
    /\ SELECT = Select__init__
    /\ LEGACY = LEGACY_0
    /\ arrays = <<>>

SetKeywordResnames ==
    /\ \E a \in SetKeywordResnamesArgs : setKeywordResnames(a[1], a[2])
    /\ UNCHANGED instance
SetAtomNameRegex ==
    /\ \E a \in SetAtomNameRegexArgs : setAtomNameRegex(a[1], a[2])
    /\ UNCHANGED instance
SetBackboneAtomNames ==
    /\ \E a \in SetBackboneAtomNamesArgs : setBackboneAtomNames(a[1], a[2])
    /\ UNCHANGED instance
DefSelectionMacro ==
    /\ \E a \in DefSelectionMacroArgs : defSelectionMacro(a[1], a[2])
    /\ UNCHANGED instance
DelSelectionMacro ==
    /\ \E name \in DelSelectionMacroArgs : delSelectionMacro(name)
    /\ UNCHANGED instance
Query ==
    /\ \E atoms \in {AtomGroup, Subset(<<0, 2, 4>>)}, selstr \in Queries :
           GetBoolArray(atoms, selstr)
    /\ UNCHANGED instance

Next ==
    \/ SetKeywordResnames
    \/ SetAtomNameRegex
    \/ SetBackboneAtomNames
    \/ DefSelectionMacro
    \/ DelSelectionMacro
    \/ Query

Spec == Init /\ [][Next]_vars

(***************************************************************************)
(* Evaluation of one selection string on one target, with the catalog as   *)
(* the module defines it and no macros: the target and the string are      *)
(* drawn when the call is prepared, Evaluate makes the call.               *)
(***************************************************************************)
MaxOperands == 3

\* the boolean sub-queries that the chains are made of
SubQueries ==
    {<<"name", " ", "CA">>,
     <<"resname", " ", "ALA", " ", "ASP">>,
     <<"protein">>,
     <<"not", " ", "name", " ", "CB">>,
     <<"(", "name", " ", "N", " ", "or", " ", "name", " ", "O", ")">>,
     <<"index", " ", "0", " ", "to", " ", "3">>,
     <<"index", " ", "<", " ", "3">>}

\* queries with numeric keywords inside comparisons
Comparisons ==
    {<<"resnum", " ", "<", " ", "3">>,
     <<"x", " ", "<", " ", "4">>,
     <<"1", " ", "<", " ", "x", " ", "<", " ", "5">>}

RECURSIVE Join(_, _)
\* the operands qs written as one chain with `word` between them
Join(qs, word) ==
    IF Len(qs) = 1 THEN qs[1]
    ELSE qs[1] \o <<" ", word, " ">> \o Join(Tail(qs), word)

OperandSeqs == UNION {[1..n -> SubQueries] : n \in 2..MaxOperands}

EvalQueries ==
    SubQueries \cup Comparisons
    \cup {Join(qs, "and") : qs \in OperandSeqs}
    \cup {Join(qs, "or") : qs \in OperandSeqs}

\* the targets of the distance queries and of the expansions: with the
\* large atom group and a large subset of it, a sub-query can select more
\* than SparseBelow atoms
UnaryTargets ==
    {AtomGroup, Subset(<<0, 2, 4>>), LargeGroup,
     SubsetOf(LargeGroup, [p \in 1..(NumLarge - 1) |-> p])}

\* the sub-queries the unary operators are applied to
References ==
    {<<"name", " ", "N">>,
     <<"resname", " ", "HOH">>,
     <<"none">>,
     <<"all">>,
     <<"index", " ", "5">>,
     <<"index", " ", "1", " ", "to", " ", "20">>,
     <<"not", " ", "index", " ", "5">>,
     <<"(", "name", " ", "N", " ", "or", " ", "name", " ", "O", ")">>,
     <<"(", "x", " ", "<", " ", "4", ")">>}

\* the radii of the distance queries
Radii == {"0", "2", "3"}

\* the query `op R of G`
WithinQuery(op, R, G) == <<op, " ", R, " ", "of", " ">> \o G

\* the query `same what as Q`
SameQuery(what, Q) == <<"same", " ", what, " ", "as", " ">> \o Q

ExpansionQueries ==
    {SameQuery(what, Q) : what \in LowerWords, Q \in References}

DistanceQueries ==
    {WithinQuery(op, R, G) :
        op \in {"within", "exwithin"}, R \in Radii, G \in References}

\* the sub-queries of the queries that mix the operators
Simple ==
    {<<"name", " ", "CA">>,
     <<"resname", " ", "ALA", " ", "ASP">>,
     <<"protein">>,
     <<"index", " ", "0", " ", "to", " ", "3">>}

\* the comparisons of the queries that mix the operators
SimpleComparisons == Comparisons \cup {<<"y", " ", ">", " ", "0">>}

\* Q in parentheses
Paren(Q) == <<"(">> \o Q \o <<")">>

\* the queries `not P and W`, `A or B and C` and `c1 and c2` of two
\* comparisons, each with the query that has the parentheses written, the
\* operands of the outer operator, and the outer operator
MixedQueries ==
    {[q |-> <<"not", " ">> \o P \o <<" ", "and", " ">> \o W,
      grouped |-> Paren(<<"not", " ">> \o P) \o <<" ", "and", " ">> \o W,
      left |-> <<"not", " ">> \o P, right |-> W, op |-> "and"] :
        P \in Simple, W \in Simple}
    \cup
    {[q |-> A \o <<" ", "or", " ">> \o B \o <<" ", "and", " ">> \o C,
      grouped |-> A \o <<" ", "or", " ">>
                    \o Paren(B \o <<" ", "and", " ">> \o C),
      left |-> A, right |-> B \o <<" ", "and", " ">> \o C, op |-> "or"] :
        A \in Simple, B \in Simple, C \in Simple}
    \cup
    {[q |-> c \o <<" ", "and", " ">> \o d,
      grouped |-> Paren(c) \o <<" ", "and", " ">> \o Paren(d),
      left |-> c, right |-> d, op |-> "and"] :
        c \in SimpleComparisons, d \in SimpleComparisons}

\* the literals that follow a string keyword: plain words, words between
\* grave accents and regular expressions
LiteralUnits == {"N", "CB"} \cup DOMAIN SpecialChars \cup DOMAIN RegularExpressions

RECURSIVE Spaced(_)
\* the words ws with a space between them
Spaced(ws) ==
    IF Len(ws) = 1 THEN <<ws[1]>> ELSE <<ws[1], " ">> \o Spaced(Tail(ws))

\* `name` followed by the literals ls
LiteralQuery(ls) == <<"name", " ">> \o Spaced(ls)

\* one to MaxOperands literals in any mix and order, and five plain words
LiteralQueries ==
    {LiteralQuery(ls) :
        ls \in UNION {[1..n -> LiteralUnits] : n \in 1..MaxOperands}}
    \cup {LiteralQuery(<<"N", "CB", "O", "H", "C">>),
          LiteralQuery(<<"N", "CB", "O", "H", "C", "\"C.\"">>)}

\* the items of the lists that follow an integer keyword: a value, a to b,
\* a:b and a:b:c
RangeItems ==
    {<<"2">>, <<"1", " ", "to", " ", "3">>, <<"1:3">>, <<"2:5">>, <<"0:6:2">>}

\* the integer keywords of the model that have data
RangeKeywords == {"resnum", "index", "resindex"}

\* an integer keyword followed by one or two items
RangeQueries ==
    {<<kw, " ">> \o i : kw \in RangeKeywords, i \in RangeItems}
    \cup {<<kw, " ">> \o i \o <<" ">> \o j :
             kw \in RangeKeywords, i \in RangeItems, j \in RangeItems}

\* numeric expressions with a division by the number 0
ZeroDivisions ==
    {<<"x", " ", "/", " ", "0">>,
     <<"1", " ", "/", " ", "0">>,
     <<"x", " ", "*", " ", "2", " ", "/", " ", "0">>,
     <<"x", " ", "/", " ", "0", " ", "*", " ", "2">>,
     <<"resnum", " ", "/", " ", "0", " ", "+", " ", "1">>,
     <<"x", " ", "+", " ", "1", " ", "/", " ", "0">>}

\* numeric expressions without one
Quotients ==
    {<<"x", " ", "/", " ", "1">>,
     <<"x", " ", "*", " ", "2">>,
     <<"x", " ", "+", " ", "1">>,
     <<"x", " ", "-", " ", "resnum">>,
     <<"x", " ", "%", " ", "2">>,
     <<"x", " ", "*", " ", "2", " ", "/", " ", "2", " ", "+", " ", "1">>,
     <<"4", " ", "/", " ", "2">>,
     <<"0", " ", "/", " ", "x">>}

\* the numeric expressions alone, and on either side of a comparison
ArithmeticQueries ==
    LET E == ZeroDivisions \cup Quotients
    IN  E \cup {e \o <<" ", "<", " ", "4">> : e \in E}
          \cup {<<"2", " ", "<", " ">> \o e : e \in E}

\* the keywords the module documentation gives a selection string for,
\* with that string: the read-only residue keywords
\* (KEYWORD_RESNAMES_READONLY), backbone and sidechain, and the keywords of
\* the secondary structures
SameAsDocumented ==
    [k \in {"acyclic", "charged", "large", "neutral", "polar", "surface",
            "backbone", "bb", "sidechain", "sc"} \cup DOMAIN SECSTR_MAP |->
        CASE k = "acyclic" -> <<"protein", " ", "and", " ", "not", " ", "cyclic">>
          [] k = "charged" -> <<"acidic", " ", "or", " ", "basic">>
          [] k = "large"   -> <<"not", " ", "(", "small", " ", "or", " ", "medium", ")">>
          [] k = "neutral" -> <<"protein", " ", "and", " ", "not", " ", "charged">>
          [] k = "polar"   -> <<"protein", " ", "and", " ", "not", " ", "hydrophobic">>
          [] k = "surface" -> <<"protein", " ", "and", " ", "not", " ", "buried">>
          [] k \in {"backbone", "bb"} ->
                <<"name", " ", "CA", " ", "C", " ", "O", " ", "N", " ",
                  "and", " ", "protein">>
          [] k \in {"sidechain", "sc"} ->
                <<"not", " ", "name", " ", "CA", " ", "C", " ", "O", " ", "N",
                  " ", "H", " ", "and", " ", "protein">>
          [] k = "extended"   -> <<"secondary", " ", "E">>
          [] k = "helix"      -> <<"secondary", " ", "H">>
          [] k = "helix_3_10" -> <<"secondary", " ", "G">>
          [] k = "helix_pi"   -> <<"secondary", " ", "I">>
          [] k = "turn"       -> <<"secondary", " ", "T">>
          [] k = "bridge"     -> <<"secondary", " ", "B">>
          [] k = "bend"       -> <<"secondary", " ", "S">>
          [] OTHER            -> <<"secondary", " ", "C">>]

\* the documented keywords, and the strings documented for them
KeywordQueries ==
    {<<k>> : k \in DOMAIN SameAsDocumented}
    \cup {SameAsDocumented[k] : k \in DOMAIN SameAsDocumented}

\* the atom group with a terminal hydrogen in the place of the second atom
Terminal ==
    [ag |-> TRUE, indices |-> <<>>, n |-> NumAtoms,
     arrays |-> [name |-> [p \in 1..NumAtoms |->
                             IF p = 2 THEN "H1" ELSE AgColumn("name")[p]],
                 coords |-> [p \in 1..NumAtoms |-> AgCoords(p)]]]

\* what SpecEval evaluates: a target and a selection string
EvalInputs ==
    (Targets \X EvalQueries)
    \cup (UnaryTargets \X (DistanceQueries \cup ExpansionQueries))
    \cup ((Targets \cup {LargeGroup}) \X {m.q : m \in MixedQueries})
    \cup (Targets \X LiteralQueries)
    \cup ((Targets \cup {LargeGroup}) \X RangeQueries)
    \cup (Targets \X ArithmeticQueries)
    \cup ((Targets \cup {LargeGroup, Terminal}) \X KeywordQueries)

InitEval ==
    /\ KEYWORD_RESNAMES = _setReadonlyResidueNames(KEYWORD_RESNAMES_0)
    /\ KEYWORD_MAP = KEYWORD_MAP_0
    /\ KEYWORD_NAME_REGEX = KEYWORD_NAME_REGEX_0
    /\ BACKBONE_ATOM_NAMES = BACKBONE_ATOM_NAMES_0
    /\ BACKBONE_FULL_ATOM_NAMES = BACKBONE_FULL_ATOM_NAMES_0
    /\ MACROS = EmptyDict
    /\ \E input \in EvalInputs :
           call = Call("prepared", "", input[2], input[1], None, "")
    /\ ncalls = 0
    /\ SELECT = Select__init__
    /\ LEGACY = LEGACY_0
    /\ arrays = <<>>

\* the prepared call is made
Evaluate ==
    /\ call.op = "prepared"
    /\ call' = Call("getBoolArray", "", call.arg, call.atoms,
                    getBoolArray(call.atoms, call.arg), "")
    /\ ncalls' = ncalls + 1
    /\ UNCHANGED <<catalog, MACROS, instance>>

\* the prepared call is made with select
EvaluateSelect ==
    /\ call.op = "prepared"
    /\ call' = Call("select", "", call.arg, call.atoms,
                    select(call.atoms, call.arg), "")
    /\ ncalls' = ncalls + 1
    /\ UNCHANGED <<catalog, MACROS, instance>>

NextEval == Evaluate \/ EvaluateSelect

SpecEval == InitEval /\ [][NextEval]_vars

(***************************************************************************)
(* Calls on one Select instance while the caller changes the atom groups:  *)
(* the caller sets the names or the coordinates of one of two atom groups  *)
(* between the calls, and each call is made on one of the groups or on a   *)
(* subset of it.                                                           *)
(***************************************************************************)
\* the atom groups of the caller
Groups == {1, 2}

\* the arrays of names the caller sets: those of the table of atoms, and
\* those with CA and CB swapped
NameArrays ==
    {[p \in 1..NumAtoms |-> AgColumn("name")[p]],
     [p \in 1..NumAtoms |->
         CASE AgColumn("name")[p] = "CA" -> "CB"
           [] AgColumn("name")[p] = "CB" -> "CA"
           [] OTHER -> AgColumn("name")[p]]}

\* the coordinate arrays the caller sets: those of the table of atoms, and
\* those mirrored along x
CoordArrays ==
    {[p \in 1..NumAtoms |-> AgCoords(p)],
     [p \in 1..NumAtoms |-> <<9 - AgCoords(p)[1], AgCoords(p)[2], 0>>]}

\* the selection strings of the calls
CacheQueries ==
    {<<"name", " ", "CA">>,
     <<"calpha">>,
     <<"x", " ", "<", " ", "4">>,
     WithinQuery("within", "2", <<"name", " ", "N">>)}

\* atoms seen through the instance: the target with the arrays of its atom
\* group, and self._data and self._coords of the instance
Bound(atoms, arrs, self) ==
    [ag |-> atoms.ag, indices |-> atoms.indices, n |-> atoms.n,
     arrays |-> arrs, _data |-> self._data, _coords |-> self._coords]

\* the target with the arrays of its atom group, seen by a new instance
Unbound(atoms, arrs) ==
    [ag |-> atoms.ag, indices |-> atoms.indices, n |-> atoms.n,
     arrays |-> arrs]

\* the keywords Select._getData is called with when selstr is evaluated
DataKeywords(selstr) ==
    ({Synonym(u) : u \in Range(selstr)} \cap (AgFields \ {"x", "y", "z"}))
    \cup (IF \E u \in Range(selstr) \cap DOMAIN KEYWORD_MAP :
                 ~KEYWORD_MAP[u].an_none
          THEN {"name"} ELSE {})
    \cup (IF \E u \in Range(selstr) \cap DOMAIN KEYWORD_MAP :
                 ~KEYWORD_MAP[u].rn_none
          THEN {"resname"} ELSE {})

\* Select._getCoords is called when selstr is evaluated
NeedsCoords(selstr) ==
    Range(selstr) \cap {"x", "y", "z", "within", "exwithin"} # {}

\* self._data and self._coords when selstr has been evaluated on self:
\* self._data[keyword] = data of Select._getData, and self._coords of
\* Select._getCoords
AfterCall(self, selstr) ==
    [_data |-> [k \in DOMAIN self._data \cup DataKeywords(selstr) |->
                   IF k \in DOMAIN self._data THEN self._data[k]
                   ELSE AgArray(self, k)],
     _coords |-> IF NeedsCoords(selstr) THEN Coords(_getCoords(self))
                 ELSE self._coords]

InitCache ==
    /\ KEYWORD_RESNAMES = _setReadonlyResidueNames(KEYWORD_RESNAMES_0)
    /\ KEYWORD_MAP = KEYWORD_MAP_0
    /\ KEYWORD_NAME_REGEX = KEYWORD_NAME_REGEX_0
    /\ BACKBONE_ATOM_NAMES = BACKBONE_ATOM_NAMES_0
    /\ BACKBONE_FULL_ATOM_NAMES = BACKBONE_FULL_ATOM_NAMES_0
    /\ MACROS = EmptyDict
    /\ call = Call("import", "", <<>>, AtomGroup, None, "")
    /\ ncalls = 0
    /\ SELECT = Select__init__
    /\ LEGACY = LEGACY_0
    /\ arrays = [g \in Groups |->
                    [name |-> [p \in 1..NumAtoms |-> AgColumn("name")[p]],
                     coords |-> [p \in 1..NumAtoms |-> AgCoords(p)]]]

\* the caller sets the names of the atoms of group g
SetNames ==
    /\ \E g \in Groups, names \in NameArrays :
           /\ arrays[g].name # names
           /\ arrays' = [arrays EXCEPT ![g].name = names]
    /\ UNCHANGED <<catalog, MACROS, call, ncalls, SELECT, LEGACY>>

\* the caller sets the coordinates of the atoms of group g
SetCoords ==
    /\ \E g \in Groups, coords \in CoordArrays :
           /\ arrays[g].coords # coords
           /\ arrays' = [arrays EXCEPT ![g].coords = coords]
    /\ UNCHANGED <<catalog, MACROS, call, ncalls, SELECT, LEGACY>>

\* what the instance holds from an earlier call differs from what the
\* target holds now: a column of self._data, or self._coords
Stale(self, atoms, arrs) ==
    \/ \E k \in DOMAIN self._data \cap DOMAIN arrs : self._data[k] # arrs[k]
    \/ ~self._coords.none
        /\ self._coords.a # _getCoords(Unbound(atoms, arrs))

\* the note of a call: whether the instance held stale data when it was made
Note(self, atoms, arrs) == IF Stale(self, atoms, arrs) THEN "stale" ELSE ""

\* SELECT.getBoolArray(atoms, selstr), atoms being group g or a subset of
\* it: self._reset(), then the evaluation, which fills the caches
CachedGetBoolArray ==
    /\ \E g \in Groups, atoms \in {AtomGroup, Subset(<<0, 2, 4>>)},
          selstr \in CacheQueries :
           /\ call' = Call("getBoolArray", "", selstr,
                           Unbound(atoms, arrays[g]),
                           getBoolArray(Bound(atoms, arrays[g],
                                              _reset(SELECT)), selstr),
                           Note(SELECT, atoms, arrays[g]))
           /\ SELECT' = AfterCall(Bound(atoms, arrays[g], _reset(SELECT)),
                               selstr)
    /\ UNCHANGED <<catalog, MACROS, ncalls, arrays, LEGACY>>

\* SELECT.select(atoms, selstr), which calls getIndices and getBoolArray
CachedSelect ==
    /\ \E g \in Groups, atoms \in {AtomGroup, Subset(<<0, 2, 4>>)},
          selstr \in CacheQueries :
           /\ call' = Call("select", "", selstr, Unbound(atoms, arrays[g]),
                           select(Bound(atoms, arrays[g], _reset(SELECT)),
                                  selstr),
                           Note(SELECT, atoms, arrays[g]))
           /\ SELECT' = AfterCall(Bound(atoms, arrays[g], _reset(SELECT)),
                               selstr)
    /\ UNCHANGED <<catalog, MACROS, ncalls, arrays, LEGACY>>

NextCache == SetNames \/ SetCoords \/ CachedGetBoolArray \/ CachedSelect

SpecCache == InitCache /\ [][NextCache]_vars

(***************************************************************************)
(* Properties of the evaluation.                                           *)
(***************************************************************************)
\* a mask of atoms: a boolean array with one entry for each atom of atoms
IsMask(v, atoms) == v.k = "bool" /\ Len(v.a) = n_atoms(atoms)

RECURSIVE SplitFrom(_, _, _, _, _)
\* the pieces of str between the occurrences of word outside parentheses
SplitFrom(str, word, p, depth, cur) ==
    IF p > Len(str) THEN <<Strip(cur)>>
    ELSE IF str[p] = word /\ depth = 0
    THEN <<Strip(cur)>> \o SplitFrom(str, word, p + 1, 0, <<>>)
    ELSE SplitFrom(str, word, p + 1,
                   depth + (IF str[p] = "(" THEN 1
                            ELSE IF str[p] = ")" THEN -1 ELSE 0),
                   Append(cur, str[p]))

\* the operands of a chain joined by word
Operands(selstr, word) == SplitFrom(selstr, word, 1, 0, <<>>)

\* selstr is a chain of two or more operands joined by word, and by nothing
\* else
IsChain(selstr, word, other) ==
    /\ Len(Operands(selstr, word)) >= 2
    /\ Len(Operands(selstr, other)) = 1

\* the masks of the operands of the last call, each evaluated alone
Alone(word) ==
    LET qs == Operands(call.arg, word)
    IN  [i \in 1..Len(qs) |-> getBoolArray(call.atoms, qs[i])]

AllMasks(alone) == \A i \in 1..Len(alone) : IsMask(alone[i], call.atoms)

\* C1: a chain Q1 and ... and Qn, whose operands each evaluate to a mask of
\* the target when evaluated alone, evaluates to the element-wise AND of
\* these masks; the chains of the model come in every order of their
\* operands, so the result does not depend on the order.
C1_AndChainIsElementwiseAnd ==
    (call.op = "getBoolArray" /\ IsChain(call.arg, "and", "or")) =>
        LET alone == Alone("and")
        IN  AllMasks(alone) =>
                /\ call.ret.k = "bool"
                /\ call.ret.a = [p \in 1..n_atoms(call.atoms) |->
                                    \A i \in 1..Len(alone) : alone[i].a[p]]

\* an and-chain of three operands on the atom group was evaluated, the
\* operands are masks, and the result selects some atoms and not others
C1_Witness ==
    /\ call.op = "getBoolArray"
    /\ call.atoms = AtomGroup
    /\ IsChain(call.arg, "and", "or")
    /\ Len(Operands(call.arg, "and")) >= 3
    /\ AllMasks(Alone("and"))
    /\ call.ret.k = "bool"
    /\ Range(call.ret.a) = {TRUE, FALSE}

\* C2: a chain Q1 or ... or Qn (n = 2 and n >= 3 alike), whose operands
\* each evaluate to a mask of the target when evaluated alone, evaluates to
\* the element-wise OR of these masks.
C2_OrChainIsElementwiseOr ==
    (call.op = "getBoolArray" /\ IsChain(call.arg, "or", "and")) =>
        LET alone == Alone("or")
        IN  AllMasks(alone) =>
                /\ call.ret.k = "bool"
                /\ call.ret.a = [p \in 1..n_atoms(call.atoms) |->
                                    \E i \in 1..Len(alone) : alone[i].a[p]]

\* C3: a call of getBoolArray either raises SelectionError or returns a
\* boolean array with one entry for each atom of its target, comparisons
\* of index, resnum and x included.
C3_ResultIsMaskOrSelectionError ==
    call.op = "getBoolArray" =>
        \/ call.ret = Raise("SelectionError")
        \/ IsMask(call.ret, call.atoms)

(***************************************************************************)
(* Properties of the negation and of the precedence of the operators.      *)
(***************************************************************************)
\* the query `not (not Q)`
NotNot(Q) == <<"not", " ", "(", "not", " ">> \o Q \o <<")">>

\* Q has no `and` and no `or` outside parentheses
IsOperand(Q) == Len(Operands(Q, "and")) = 1 /\ Len(Operands(Q, "or")) = 1

\* C14 as stated: for every query Q that evaluates to a mask of the target,
\* "not (not Q)" evaluates to the mask of Q.
C14_DoubleNegationOfAnyQuery ==
    (call.op = "getBoolArray" /\ IsMask(call.ret, call.atoms)) =>
        getBoolArray(call.atoms, NotNot(call.arg)) = call.ret

\* C14 amended: for every query Q that evaluates to a mask of the target
\* and has no `and` and no `or` outside parentheses, "not (not Q)"
\* evaluates to the mask of Q.
C14_DoubleNegationOfOperand ==
    (/\ call.op = "getBoolArray"
     /\ IsMask(call.ret, call.atoms)
     /\ IsOperand(call.arg)) =>
        getBoolArray(call.atoms, NotNot(call.arg)) = call.ret

\* a query in parentheses that selects some atoms of the atom group and not
\* others was evaluated, and so does its double negation
C14_Witness ==
    /\ call.op = "getBoolArray"
    /\ call.atoms = AtomGroup
    /\ call.arg = <<"(", "name", " ", "N", " ", "or", " ", "name", " ", "O", ")">>
    /\ IsMask(call.ret, call.atoms)
    /\ Range(call.ret.a) = {TRUE, FALSE}
    /\ IsMask(getBoolArray(call.atoms, NotNot(call.arg)), call.atoms)

\* C15 for the query m: with the masks l and r of the operands of the outer
\* operator given, and the mask g of the query with the parentheses
PrecedenceIs(m, l, r, g) ==
    (IsMask(l, call.atoms) /\ IsMask(r, call.atoms)) =>
        /\ call.ret = g
        /\ call.ret =
              BoolArr([p \in 1..n_atoms(call.atoms) |->
                          IF m.op = "and" THEN l.a[p] /\ r.a[p]
                          ELSE l.a[p] \/ r.a[p]])

\* C15: "not P and W" evaluates to the mask of "(not P) and W", "A or B and
\* C" to the mask of "A or (B and C)", and "c1 and c2" for two comparisons
\* to the mask of "(c1) and (c2)": each is the mask of its outer operator
\* applied to the masks of the two sides.
C15_PrecedenceOfOperators ==
    call.op = "getBoolArray" =>
        \A m \in MixedQueries :
            call.arg = m.q =>
                PrecedenceIs(m, getBoolArray(call.atoms, m.left),
                             getBoolArray(call.atoms, m.right),
                             getBoolArray(call.atoms, m.grouped))

\* "not name CA and protein" was evaluated on the atom group; the result
\* selects atoms, and it is not the mask of "not (name CA and protein)"
C15_Witness ==
    /\ call.op = "getBoolArray"
    /\ call.atoms = AtomGroup
    /\ call.arg = <<"not", " ", "name", " ", "CA", " ", "and", " ", "protein">>
    /\ IsMask(call.ret, call.atoms)
    /\ Range(call.ret.a) = {TRUE, FALSE}
    /\ call.ret # getBoolArray(call.atoms,
                               <<"not", " ">>
                               \o Paren(<<"name", " ", "CA", " ", "and", " ",
                                          "protein">>))

(***************************************************************************)
(* Properties of the literals of the string and integer keywords.          *)
(***************************************************************************)
\* selstr is `name` followed by literals
IsLiteralQuery(selstr) ==
    /\ Len(selstr) >= 3
    /\ selstr[1] = "name"
    /\ \A u \in Range(Tail(Units(selstr))) :
           u \in LiteralUnits \cup Range(AtomNames) \cup {"C"}

\* the literal u selects an atom named value: a regular expression matches
\* the whole of it, a word (between grave accents or not) equals it
LiteralSelects(u, value) ==
    IF u \in DOMAIN RegularExpressions
    THEN ReMatch(RegularExpressions[u], Chars[value])
    ELSE IF u \in DOMAIN SpecialChars THEN value = SpecialChars[u]
    ELSE value = u

\* C16: `name` followed by several literals (plain words, words between
\* grave accents and regular expressions in any mix and order) selects
\* exactly the atoms whose name equals one of the words or is matched in
\* full by one of the regular expressions.
C16_LiteralsAreUnion ==
    (call.op = "getBoolArray" /\ IsLiteralQuery(call.arg)) =>
        call.ret =
            BoolArr([p \in 1..n_atoms(call.atoms) |->
                        \E u \in Range(Tail(Units(call.arg))) :
                            LiteralSelects(u, _getData(call.atoms, "name")[p])])

\* selstr is an integer keyword followed by one or two items
IsRangeQuery(selstr) == selstr \in RangeQueries

\* the value v is in the item written with the words ws, of which `from`
\* is the first: a value, a to b, a:b or a:b:c
InItem(ws, from, v) ==
    IF from + 2 <= Len(ws) /\ ws[from + 1] = "to"
    THEN NumberOf[ws[from]] <= v /\ v <= NumberOf[ws[from + 2]]
    ELSE IF IsColon(ws[from])
    THEN LET t == ColonOf[ws[from]]
         IN  /\ t[1] <= v
             /\ v < t[2]
             /\ Len(t) = 3 => \E k \in 0..t[2] : v = t[1] + k * t[3]
    ELSE v = NumberOf[ws[from]]

\* the words at which an item starts: not `to`, and not next to it
ItemStarts(ws) ==
    {p \in 1..Len(ws) :
        /\ ws[p] # "to"
        /\ p > 1 => ws[p - 1] # "to"}

\* C17: an integer keyword followed by a list of items selects the atoms
\* whose value is in at least one item: a value v holds v, "a to b" the
\* values from a to b with both ends, "a:b" the values from a to b without
\* b, and "a:b:c" the values a, a+c, a+2c, ... below b.
C17_RangeItemsAreUnion ==
    (call.op = "getBoolArray" /\ IsRangeQuery(call.arg)) =>
        LET ws == Tail(Units(call.arg))
            data == _getData(call.atoms, call.arg[1])
        IN  call.ret =
                BoolArr([p \in 1..n_atoms(call.atoms) |->
                            \E from \in ItemStarts(ws) :
                                InItem(ws, from, data[p])])

(***************************************************************************)
(* Properties of the numeric expressions.                                  *)
(***************************************************************************)
\* selstr divides by the number 0
DividesByZero(selstr) ==
    \E p \in 1..(Len(selstr) - 2) :
        selstr[p] = "/" /\ selstr[p + 1] = " " /\ selstr[p + 2] = "0"

\* C18: a selection string that divides by the number 0 with `/` inside a
\* numeric expression raises ZeroDivisionError.
C18_ZeroDivisionError ==
    (call.op = "getBoolArray" /\ DividesByZero(call.arg)) =>
        call.ret = Raise("ZeroDivisionError")

(***************************************************************************)
(* Properties of select.                                                   *)
(***************************************************************************)
\* the index in the atom group of atom p of atoms
IndexOf(atoms, p) == IF atoms.ag THEN p - 1 ELSE atoms.indices[p]

\* C20 with the array torf that getBoolArray returns given: the atoms of
\* the target whose entry is true are returned by their indices in the
\* atom group, in their order, and None when there is none
SelectIsMaskIndices(torf) ==
    LET matching == Nonzero([p \in 1..n_atoms(call.atoms) |->
                                p <= Len(torf.a) /\ torf.a[p]])
    IN  IF matching = <<>> THEN call.ret = None
        ELSE /\ call.ret = Selection([i \in 1..Len(matching) |->
                                         IndexOf(call.atoms, matching[i])])
             /\ ~call.atoms.ag =>
                    Range(call.ret.a) \subseteq Range(call.atoms.indices)

\* C20: select returns None exactly when getBoolArray selects no atom of
\* the target, and otherwise a selection whose indices are the atom group
\* indices of the atoms of the target whose entry is true, which are
\* indices of the target.
C20_SelectIsMaskIndices ==
    (call.op = "select" /\ getBoolArray(call.atoms, call.arg).k = "bool") =>
        SelectIsMaskIndices(getBoolArray(call.atoms, call.arg))

(***************************************************************************)
(* Properties of the distance based selections.                            *)
(***************************************************************************)
\* selstr is the query `op R of G` of the model for a radius R and a
\* sub-query G
IsWithin(selstr, op) ==
    \E R \in Radii, G \in References : selstr = WithinQuery(op, R, G)

\* the radius and the sub-query of a distance query
RadiusOf(selstr) == NumberOf[selstr[3]]
ReferenceOf(selstr) == SubSeq(selstr, 7, Len(selstr))

\* the atoms of the target no farther than radius from an atom that the
\* mask g selects
Near(atoms, g, radius) ==
    [p \in 1..n_atoms(atoms) |->
        \E q \in 1..n_atoms(atoms) :
            /\ g[q]
            /\ Dist2(_getCoords(atoms)[p], _getCoords(atoms)[q])
                   <= radius * radius]

\* C11 with the mask g of G given
WithinIsNear(g) ==
    IsMask(g, call.atoms) =>
        /\ call.ret = BoolArr(Near(call.atoms, g.a, RadiusOf(call.arg)))
        /\ \A p \in 1..n_atoms(call.atoms) : g.a[p] => call.ret.a[p]

\* C11: "within R of G", for a sub-query G that evaluates to a mask of the
\* target, is true exactly for the atoms of the target whose distance to at
\* least one atom selected by G is at most R, and it holds every atom that
\* G selects.
C11_WithinIsNearReference ==
    (call.op = "getBoolArray" /\ IsWithin(call.arg, "within")) =>
        WithinIsNear(getBoolArray(call.atoms, ReferenceOf(call.arg)))

\* "within 3 of G" was evaluated on the large atom group for a G that
\* selects some atoms; an atom G does not select lies at the distance 3 of
\* one it selects and is in the result, and other atoms are not
C11_Witness ==
    /\ call.op = "getBoolArray"
    /\ call.atoms = LargeGroup
    /\ call.arg = WithinQuery("within", "3", <<"name", " ", "N">>)
    /\ call.ret.k = "bool"
    /\ call.ret.a[1] /\ call.ret.a[9] /\ call.ret.a[3]
    /\ ~call.ret.a[4]

\* the query `within R of G and not G` for the distance query selstr
WithinAndNot(selstr) ==
    WithinQuery("within", selstr[3], ReferenceOf(selstr))
        \o <<" ", "and", " ", "not", " ">> \o ReferenceOf(selstr)

\* C12 with the mask g of G, the mask w of `within R of G` and the mask wn
\* of `within R of G and not G` given
ExwithinIsWithinLess(g, w, wn) ==
    IsMask(g, call.atoms) =>
        /\ IsMask(call.ret, call.atoms)
        /\ IsMask(w, call.atoms)
        /\ \A p \in 1..n_atoms(call.atoms) :
               /\ ~(call.ret.a[p] /\ g.a[p])
               /\ call.ret.a[p] = (w.a[p] /\ ~g.a[p])
        /\ call.ret = wn

\* C12: "exwithin R of G", for a sub-query G that evaluates to a mask of
\* the target, selects no atom that G selects and is the mask of "within R
\* of G" without the atoms of G, which is the mask of "within R of G and
\* not G"; G selects fewer than 20 atoms or more.
C12_ExwithinIsWithinLessReference ==
    (call.op = "getBoolArray" /\ IsWithin(call.arg, "exwithin")) =>
        ExwithinIsWithinLess(
            getBoolArray(call.atoms, ReferenceOf(call.arg)),
            getBoolArray(call.atoms,
                         WithinQuery("within", call.arg[3],
                                     ReferenceOf(call.arg))),
            getBoolArray(call.atoms, WithinAndNot(call.arg)))

\* "exwithin 3 of G" was evaluated on the large atom group for a G that
\* selects 20 atoms: the two other atoms are in the result, the atoms of G
\* are not
C12_Witness ==
    /\ call.op = "getBoolArray"
    /\ call.atoms = LargeGroup
    /\ call.arg = WithinQuery("exwithin", "3",
                              <<"index", " ", "1", " ", "to", " ", "20">>)
    /\ Len(Nonzero(getBoolArray(LargeGroup, ReferenceOf(call.arg)).a))
           >= SparseBelow
    /\ call.ret.k = "bool"
    /\ Nonzero(call.ret.a) = <<1, NumLarge>>

(***************************************************************************)
(* Properties of the expansions.                                           *)
(***************************************************************************)
\* selstr is the query `same what as Q` of the model for a residue, chain
\* or segment and a sub-query Q
IsSame(selstr) ==
    \E what \in {"residue", "chain", "segment"}, Q \in References :
        selstr = SameQuery(what, Q)

\* what tells the group of the atom at position p of the target
GroupOf(what, atoms, p) ==
    GroupKey(what, IF atoms.ag THEN p ELSE atoms.indices[p] + 1)

\* C13 with the mask q of Q and the mask twice of the expansion applied to
\* the expansion given
SameIsUnionOfGroups(what, q, twice) ==
    IsMask(q, call.atoms) =>
        /\ call.ret =
              BoolArr([p \in 1..n_atoms(call.atoms) |->
                          \E r \in 1..n_atoms(call.atoms) :
                              /\ q.a[r]
                              /\ GroupOf(what, call.atoms, p)
                                     = GroupOf(what, call.atoms, r)])
        /\ \A p \in 1..n_atoms(call.atoms) : q.a[p] => call.ret.a[p]
        /\ (Nonzero(q.a) = <<>> => Nonzero(call.ret.a) = <<>>)
        /\ twice = call.ret

\* C13: "same residue|chain|segment as Q", for a sub-query Q that evaluates
\* to a mask of the target, selects exactly the atoms of the target that
\* are in the residue, chain or segment of an atom Q selects: it holds the
\* atoms of Q, is empty when Q selects nothing, and the expansion of the
\* expansion is the expansion.
C13_SameIsUnionOfGroups ==
    (call.op = "getBoolArray" /\ IsSame(call.arg)) =>
        SameIsUnionOfGroups(
            call.arg[3],
            getBoolArray(call.atoms, ReferenceOf(call.arg)),
            getBoolArray(call.atoms,
                         SameQuery(call.arg[3],
                                   <<"(">> \o call.arg \o <<")">>)))

\* "same residue as name N" was evaluated on the large atom group: the
\* three atoms named N and the other atom of each of their residues are
\* selected
C13_Witness ==
    /\ call.op = "getBoolArray"
    /\ call.atoms = LargeGroup
    /\ call.arg = SameQuery("residue", <<"name", " ", "N">>)
    /\ call.ret.k = "bool"
    /\ Nonzero(call.ret.a) = <<1, 2, 9, 10, 17, 18>>

(***************************************************************************)
(* Properties of the macros.                                               *)
(***************************************************************************)
RECURSIVE WithBodies(_)
\* selstr with `(body)` written in the place of every macro name
WithBodies(selstr) ==
    IF selstr = <<>> THEN <<>>
    ELSE (IF Head(selstr) \in DOMAIN MACROS
          THEN <<"(">> \o MACROS[Head(selstr)] \o <<")">>
          ELSE <<Head(selstr)>>) \o WithBodies(Tail(selstr))

UsesMacro(selstr) == \E p \in 1..Len(selstr) : selstr[p] \in DOMAIN MACROS

\* C4: a query that uses the name of a defined macro, alone or as a word of
\* a larger query, evaluates to what the query with `(body)` in the place
\* of the name evaluates to.
C4_MacroIsItsBody ==
    (call.op = "getBoolArray" /\ UsesMacro(call.arg)) =>
        call.ret = getBoolArray(call.atoms, WithBodies(call.arg))

(***************************************************************************)
(* Properties of the keyword catalog.                                      *)
(***************************************************************************)
\* the boolean keywords of a state: KEYWORDS_BOOLEAN as the module computes
\* it, and the keys of KEYWORD_MAP as the last _buildKeywordMap left them
BooleanKeywords == KEYWORDS_BOOLEAN \cup DOMAIN KEYWORD_MAP

\* C19: in every state of the catalog the boolean, string, integer and
\* float keywords are pairwise disjoint.
C19_KeywordSetsDisjoint ==
    /\ BooleanKeywords \cap KEYWORDS_STRING = {}
    /\ BooleanKeywords \cap KEYWORDS_INTEGER = {}
    /\ BooleanKeywords \cap KEYWORDS_FLOAT = {}
    /\ KEYWORDS_STRING \cap KEYWORDS_INTEGER = {}
    /\ KEYWORDS_STRING \cap KEYWORDS_FLOAT = {}
    /\ KEYWORDS_INTEGER \cap KEYWORDS_FLOAT = {}

\* setBackboneAtomNames has built KEYWORD_MAP again after a call of
\* setAtomNameRegex or setKeywordResnames changed the catalog
C19_Witness ==
    /\ call.op = "setBackboneAtomNames"
    /\ call.ret = None
    /\ KEYWORD_MAP # KEYWORD_MAP_0
    /\ \/ KEYWORD_NAME_REGEX # KEYWORD_NAME_REGEX_0
       \/ KEYWORD_RESNAMES # _setReadonlyResidueNames(KEYWORD_RESNAMES_0)
    /\ DOMAIN KEYWORD_MAP = DOMAIN KEYWORD_MAP_0

\* the atoms of the atom group whose residue name is in names
ResnameIn(names) ==
    BoolArr([p \in 1..NumAtoms |-> AtomResnames[Slot(p)] \in names])

\* the atoms of the atom group whose name matches the regular expression
NameMatches(regex) ==
    BoolArr([p \in 1..NumAtoms |-> ReMatch(regex, Chars[AtomNames[Slot(p)]])])

\* C5: after setKeywordResnames('acidic', names) the query "charged"
\* selects the atoms whose residue name is in names or in the basic list,
\* without any further call.
C5_ChargedFollowsAcidic ==
    (/\ call.op = "setKeywordResnames"
     /\ call.name = "acidic"
     /\ call.ret = None) =>
        getBoolArray(AtomGroup, <<"charged">>)
            = ResnameIn(Range(call.arg.items)
                        \cup Range(KEYWORD_RESNAMES["basic"]))

\* C6: in every state a keyword that setKeywordResnames can set selects the
\* atoms whose residue name is in the list it has now, and an element
\* keyword selects by the regular expression it has now (carbon, which
\* also excludes the ions, apart).
C6_ExpansionIsCurrentDefinition ==
    /\ \A k \in DOMAIN KEYWORD_RESNAMES_0 :
           getBoolArray(AtomGroup, <<k>>)
               = ResnameIn(Range(KEYWORD_RESNAMES[k]))
    /\ \A e \in DOMAIN KEYWORD_NAME_REGEX \ {"carbon"} :
           getBoolArray(AtomGroup, <<e>>) = NameMatches(KEYWORD_NAME_REGEX[e])

\* the residue names stored for a keyword
Stored(keyword) == Range(KEYWORD_RESNAMES[keyword])

C8_ReadonlyKeywordFails ==
    [][(call'.op = "setKeywordResnames"
        /\ call'.name \in KEYWORD_RESNAMES_READONLY) =>
           (IsRaise(call'.ret) /\ KEYWORD_RESNAMES' = KEYWORD_RESNAMES)]_vars

\* C9: no name in the macro table is a reserved word.
C9_NoMacroIsReserved == \A name \in DOMAIN MACROS : ~isReserved(name)

\* C10: after delSelectionMacro has removed a macro, the name is not in
\* the macro table and the query that is the name raises SelectionError.
C10_DeletedMacroIsUnknown ==
    (call.op = "delSelectionMacro" /\ call.log = "info") =>
        /\ call.name \notin DOMAIN MACROS
        /\ \A atoms \in Targets :
               getBoolArray(atoms, <<call.name>>) = Raise("SelectionError")

\* a macro that was defined has been deleted
C10_Witness ==
    /\ call.op = "delSelectionMacro"
    /\ call.log = "info"
    /\ call.name \in DelSelectionMacroArgs
    /\ MACROS = EmptyDict


(***************************************************************************)
(* The operator words of a selection string given character by character,  *)
(* with no macro defined: the string is drawn when the call is prepared,   *)
(* Prepare makes the call.                                                 *)
(***************************************************************************)
\* the pieces the strings are made of: the parentheses, the space, the
\* operator words, and identifiers that hold an operator word
Pieces ==
    {<<>>, <<"(">>, <<")">>, <<" ">>, <<"a", "n", "d">>, <<"o", "r">>,
     <<"n", "o", "t">>, <<"b", "a", "n", "d">>, <<"n", "o", "r">>,
     <<"k", "n", "o", "t">>}

PrepareInputs == {a \o b \o c \o d : a \in Pieces, b \in Pieces, c \in Pieces, d \in Pieces}

InitPrepare ==
    /\ KEYWORD_RESNAMES = _setReadonlyResidueNames(KEYWORD_RESNAMES_0)
    /\ KEYWORD_MAP = KEYWORD_MAP_0
    /\ KEYWORD_NAME_REGEX = KEYWORD_NAME_REGEX_0
    /\ BACKBONE_ATOM_NAMES = BACKBONE_ATOM_NAMES_0
    /\ BACKBONE_FULL_ATOM_NAMES = BACKBONE_FULL_ATOM_NAMES_0
    /\ MACROS = EmptyDict
    /\ \E chars \in PrepareInputs :
           call = Call("prepared", "", chars, AtomGroup, <<>>, "")
    /\ ncalls = 0
    /\ SELECT = Select__init__
    /\ LEGACY = LEGACY_0
    /\ arrays = <<>>

\* self._selstr = selstr; self._prepareSelstr()
Prepare ==
    /\ call.op = "prepared"
    /\ call' = Call("_prepareSelstr", "", call.arg, call.atoms,
                    PreparedChars(call.arg), "")
    /\ ncalls' = ncalls + 1
    /\ UNCHANGED <<catalog, MACROS, instance>>

NextPrepare == Prepare

SpecPrepare == InitPrepare /\ [][NextPrepare]_vars

(***************************************************************************)
(* Words asked about: the word is drawn when the call is prepared, then    *)
(* isReserved is called with it, or the tokenizer matches it against       *)
(* `functions`.                                                            *)
(***************************************************************************)
\* the functions of the table of the module documentation
DocumentedFunctions ==
    {"abs", "acos", "asin", "atan", "ceil", "cos", "cosh", "floor", "exp",
     "log", "log10", "sin", "sinh", "sq", "sqrt", "tan", "tanh"}

WordInputs ==
    DocumentedFunctions \cup FUNCTION_MAP \cup RESERVED \cup KEYWORDS_BOOLEAN
    \cup KEYWORDS_VALUE_PAIRED \cup {"foo", "CA"}

InitWords ==
    /\ KEYWORD_RESNAMES = _setReadonlyResidueNames(KEYWORD_RESNAMES_0)
    /\ KEYWORD_MAP = KEYWORD_MAP_0
    /\ KEYWORD_NAME_REGEX = KEYWORD_NAME_REGEX_0
    /\ BACKBONE_ATOM_NAMES = BACKBONE_ATOM_NAMES_0
    /\ BACKBONE_FULL_ATOM_NAMES = BACKBONE_FULL_ATOM_NAMES_0
    /\ MACROS = EmptyDict
    /\ \E word \in WordInputs :
           call = Call("prepared", word, <<>>, AtomGroup, None, "")
    /\ ncalls = 0
    /\ SELECT = Select__init__
    /\ LEGACY = LEGACY_0
    /\ arrays = <<>>

\* isReserved(word)
IsReserved ==
    /\ call.op = "prepared"
    /\ call' = Call("isReserved", call.name, <<>>, call.atoms,
                    PyBool(isReserved(call.name)), "")
    /\ ncalls' = ncalls + 1
    /\ UNCHANGED <<catalog, MACROS, instance>>

\* the tokenizer meets the word where a function may stand
MatchFunction ==
    /\ call.op = "prepared"
    /\ call' = Call("functions", call.name, <<>>, call.atoms,
                    PyBool(functions(call.name)), "")
    /\ ncalls' = ncalls + 1
    /\ UNCHANGED <<catalog, MACROS, instance>>

NextWords == IsReserved \/ MatchFunction

SpecWords == InitWords /\ [][NextWords]_vars

(***************************************************************************)
(* The former module prody/select.py and its class Select.  The methods    *)
(* _and and _or narrow the field self._evalonly of the instance, which the *)
(* methods that evaluate a keyword read: every method below is given the   *)
(* value of self._evalonly and returns, with what the method returns, the  *)
(* value it leaves in the field.  `globals` are the module level names.    *)
(* The selection strings of the model are made of words: boolean keywords, *)
(* the keywords name, resname and chain with their values, "and" and "or". *)
(***************************************************************************)
legacy_KEYWORDS_BOOLEAN ==
    {"all", "none", "protein", "nucleic", "hetero", "water", "backbone",
     "sidechain", "calpha", "acidic", "basic", "polar", "charged", "neutral",
     "aliphatic", "hydrophobic", "aromatic", "cyclic", "acyclic", "noh",
     "hydrogen", "large", "medium", "small"}
legacy_KEYWORDS_STRING ==
    {"name", "type", "resname", "chain", "element", "segment"}

legacy_isBooleanKeyword(keyword) == keyword \in legacy_KEYWORDS_BOOLEAN
legacy_isAlnumKeyword(keyword) == keyword \in legacy_KEYWORDS_STRING

\* what a method returns or raises, and self._evalonly after it
Left(ret, evalonly) == [ret |-> ret, evalonly |-> evalonly]

\* the token ['"', chars, '"r'] of a quoted regular expression
RegexGroup(chars) == [k |-> "group", s |-> "", a |-> chars, re |-> NoRegex]

\* re.compile(chars) of a pattern  [0-9]?lit.*  or  lit.*
re_compile(chars) ==
    LET class == <<"[", "0", "-", "9", "]", "?">>
        body == IF HasPrefix(chars, class)
                THEN SubSeq(chars, Len(class) + 1, Len(chars)) ELSE chars
    IN  Regex(chars, IF HasPrefix(chars, class) THEN Digits09 ELSE {},
              SubSeq(body, 1, Len(body) - 2))

\* the atomic data that are set in the atom group
LegacyFields == {"name", "resname", "chain", "segment"}

\* Select._getAtomicData(keyword), when the data are set: the data of the
\* atom group, taken at the indices of a subset
_getAtomicData(self, keyword) ==
    [p \in 1..n_atoms(self) |->
        AgColumn(keyword)[IF self.ag THEN p ELSE self.indices[p] + 1]]

RECURSIVE alnumLoop(_, _, _, _)
\* the loop over the values of Select._evalAlnum: a regular expression sets
\* every element of torf, a string sets the elements that equal it
alnumLoop(data, values, i, torf) ==
    IF i > Len(values) THEN torf
    ELSE alnumLoop(data, values, i + 1,
             IF values[i].k = "group"
             THEN [p \in 1..Len(data) |->
                      ReMatch(re_compile(values[i].a), Chars[data[p]])]
             ELSE [p \in 1..Len(data) |-> torf[p] \/ data[p] = values[i].s])

\* Select._evalAlnum(keyword, values)
legacy_evalAlnum(self, evalonly, keyword, values) ==
    IF keyword \notin LegacyFields
    THEN Left(Raise("SelectionError"), evalonly)
    ELSE LET data == Restrict(_getAtomicData(self, keyword), evalonly)
         IN  Left(BoolArr(alnumLoop(
                      data,
                      [p \in 1..Len(values) |->
                          IF keyword = "chain" /\ values[p] = Str("_")
                          THEN Str(" ") ELSE values[p]],
                      1, [p \in 1..Len(data) |-> FALSE])),
                  evalonly)

\* the names a boolean keyword stands for in Select._evalBoolean
\* (atom_names, atom_names_not, residue_names, invert); atom_names is None
\* where an is FALSE
Names(an, atom_names, atom_names_not, residue_names, invert) ==
    [an |-> an, atom_names |-> atom_names, atom_names_not |-> atom_names_not,
     residue_names |-> residue_names, invert |-> invert]

ResidueNames(residue_names, invert) ==
    Names(FALSE, <<>>, FALSE, residue_names, invert)

KeywordNames(globals, keyword) ==
    CASE keyword = "protein" ->
             ResidueNames(globals.PROTEIN_RESIDUE_NAMES.items, FALSE)
      [] keyword = "backbone" ->
             Names(TRUE, globals.BACKBONE_ATOM_NAMES.items, FALSE,
                   globals.PROTEIN_RESIDUE_NAMES.items, FALSE)
      [] keyword = "acidic" ->
             ResidueNames(globals.ACIDIC_RESIDUE_NAMES.items, FALSE)
      [] keyword = "basic" ->
             ResidueNames(globals.BASIC_RESIDUE_NAMES.items, FALSE)
      [] keyword = "charged" ->
             ResidueNames(globals.ACIDIC_RESIDUE_NAMES.items
                          \o globals.BASIC_RESIDUE_NAMES.items, FALSE)
      [] keyword = "aliphatic" ->
             ResidueNames(globals.ALIPHATIC_RESIDUE_NAMES.items, FALSE)
      [] keyword = "aromatic" ->
             ResidueNames(globals.AROMATIC_RESIDUE_NAMES.items, FALSE)
      [] keyword = "small" ->
             ResidueNames(globals.SMALL_RESIDUE_NAMES.items, FALSE)
      [] keyword = "medium" ->
             ResidueNames(globals.MEDIUM_RESIDUE_NAMES.items, FALSE)
      [] keyword = "cyclic" ->
             ResidueNames(globals.CYCLIC_RESIDUE_NAMES.items, FALSE)
      [] keyword = "large" ->
             ResidueNames(
                 SetToSeq(Range(globals.PROTEIN_RESIDUE_NAMES.items)
                          \ Range(globals.SMALL_RESIDUE_NAMES.items
                                  \o globals.MEDIUM_RESIDUE_NAMES.items)),
                 FALSE)
      [] keyword = "neutral" ->
             ResidueNames(globals.ACIDIC_RESIDUE_NAMES.items
                          \o globals.BASIC_RESIDUE_NAMES.items, TRUE)
      [] keyword = "acyclic" ->
             ResidueNames(globals.CYCLIC_RESIDUE_NAMES.items, TRUE)
      [] keyword \in {"water", "waters"} ->
             ResidueNames(globals.WATER_RESIDUE_NAMES.items, FALSE)
      [] keyword = "nucleic" ->
             ResidueNames(globals.NUCLEIC_RESIDUE_NAMES.items, FALSE)
      [] keyword = "hetero" ->
             ResidueNames(globals.NUCLEIC_RESIDUE_NAMES.items
                          \o globals.PROTEIN_RESIDUE_NAMES.items, TRUE)
      [] keyword = "sidechain" ->
             Names(TRUE, globals.BACKBONE_ATOM_NAMES.items, TRUE,
                   globals.PROTEIN_RESIDUE_NAMES.items, FALSE)

\* the keywords of the chain of elif of Select._evalBoolean that ends in
\* raise SelectionError
NamedKeywords ==
    {"protein", "backbone", "acidic", "basic", "charged", "aliphatic",
     "aromatic", "small", "medium", "cyclic", "large", "neutral", "acyclic",
     "water", "waters", "nucleic", "hetero", "sidechain"}

\* the end of Select._evalBoolean: torf of the atoms of evalonly by their
\* residue names and atom names
ByNames(self, evalonly, names) ==
    LET resnames == Restrict(_getAtomicData(self, "resname"), evalonly)
        atomnames == Restrict(_getAtomicData(self, "name"), evalonly)
        torf == [i \in 1..Len(resnames) |->
                    /\ resnames[i] \in Range(names.residue_names)
                    /\ names.an =>
                           ((atomnames[i] \in Range(names.atom_names))
                                = ~names.atom_names_not)]
    IN  BoolArr(IF names.invert THEN Invert(torf) ELSE torf)

RECURSIVE andSplit(_, _, _)
\* the while loop of Select._and: the tokens between the "&&&", a boolean
\* keyword that starts a token and is followed by more being a token of
\* its own
andSplit(temp, token, tokenlist) ==
    IF temp = <<>> THEN Append(tokenlist, token)
    ELSE IF Head(temp) = Str(AND)
    THEN andSplit(Tail(temp), <<>>, Append(tokenlist, token))
    ELSE IF /\ IsStr(Head(temp))
            /\ legacy_isBooleanKeyword(Head(temp).s)
            /\ token = <<>>
            /\ Tail(temp) # <<>>
            /\ temp[2] # Str(AND)
    THEN andSplit(Tail(temp), <<>>, Append(tokenlist, <<Head(temp)>>))
    ELSE andSplit(Tail(temp), Append(token, Head(temp)), tokenlist)

RECURSIVE orSplit(_, _, _)
\* the while loop of Select._or: the tokens between the "||"
orSplit(temp, token, tokenlist) ==
    IF temp = <<>> THEN Append(tokenlist, token)
    ELSE IF Head(temp) = Str(OR)
    THEN orSplit(Tail(temp), <<>>, Append(tokenlist, token))
    ELSE orSplit(Tail(temp), Append(token, Head(temp)), tokenlist)

\* self._evalonly after a token of Select._and that is an array
andArray(evalonly, zero) ==
    IF evalonly.none THEN Evalonly(Nonzero(zero.a))
    ELSE Evalonly(Take(evalonly.idx, Nonzero(Take(zero.a, evalonly.idx))))

\* self._evalonly after a token of Select._and that evaluated to torf
andTorf(evalonly, torf) ==
    IF evalonly.none THEN Evalonly(Nonzero(torf.a))
    ELSE Evalonly(Narrow(evalonly.idx, torf))

\* self._evalonly after a token of Select._or that is an array
orArray(evalonly, zero) ==
    IF evalonly.none THEN Evalonly(Nonzero(Invert(zero.a)))
    ELSE Evalonly(Take(evalonly.idx,
                       Nonzero(Invert(Take(zero.a, evalonly.idx)))))

\* self._evalonly after a token of Select._or that evaluated to torf
orTorf(evalonly, torf) ==
    IF evalonly.none THEN Evalonly(Nonzero(Invert(torf.a)))
    ELSE Evalonly(Narrow(evalonly.idx, BoolArr(Invert(torf.a))))

RECURSIVE legacy_evaluate(_, _, _, _)
RECURSIVE legacy_evalBoolean(_, _, _, _)
RECURSIVE legacy_not(_, _, _, _)
RECURSIVE legacy_and(_, _, _, _)
RECURSIVE legacyAndLoop(_, _, _, _, _)
RECURSIVE legacy_or(_, _, _, _)
RECURSIVE legacyOrLoop(_, _, _, _, _)

\* the for loop of Select._and over the tokens from the i-th on
legacyAndLoop(self, evalonly, globals, tokenlist, i) ==
    IF i > Len(tokenlist) THEN Left(None, evalonly)
    ELSE IF tokenlist[i] = <<>> THEN Left(Raise("IndexError"), evalonly)
    ELSE IF tokenlist[i][1].k = "bool"
    THEN legacyAndLoop(self, andArray(evalonly, tokenlist[i][1]), globals,
                 tokenlist, i + 1)
    ELSE LET torf == legacy_evaluate(self, evalonly, globals, tokenlist[i])
         IN  IF IsRaise(torf.ret) THEN torf
             ELSE legacyAndLoop(self, andTorf(torf.evalonly, torf.ret), globals,
                          tokenlist, i + 1)

\* Select._and(tokens), temp being tokens[0]: the atoms self._evalonly is
\* narrowed to, and self._evalonly = None
legacy_and(self, evalonly, globals, temp) ==
    LET done == legacyAndLoop(self, evalonly, globals, andSplit(temp, <<>>, <<>>), 1)
    IN  IF IsRaise(done.ret) THEN done
        ELSE Left(BoolArr([p \in 1..n_atoms(self) |->
                              p \in Range(done.evalonly.idx)]),
                  NoEvalonly)

\* the for loop of Select._or over the tokens from the i-th on
legacyOrLoop(self, evalonly, globals, tokenlist, i) ==
    IF i > Len(tokenlist) THEN Left(None, evalonly)
    ELSE IF tokenlist[i] = <<>> THEN Left(Raise("IndexError"), evalonly)
    ELSE IF tokenlist[i][1].k = "bool"
    THEN legacyOrLoop(self, orArray(evalonly, tokenlist[i][1]), globals,
                      tokenlist, i + 1)
    ELSE LET torf == legacy_evaluate(self, evalonly, globals, tokenlist[i])
         IN  IF IsRaise(torf.ret) THEN torf
             ELSE legacyOrLoop(self, orTorf(torf.evalonly, torf.ret),
                               globals, tokenlist, i + 1)

\* Select._or(tokens), temp being tokens[0]: the atoms self._evalonly is not
\* narrowed to, and self._evalonly = None
legacy_or(self, evalonly, globals, temp) ==
    LET done == legacyOrLoop(self, evalonly, globals,
                             orSplit(temp, <<>>, <<>>), 1)
    IN  IF IsRaise(done.ret) THEN done
        ELSE Left(BoolArr([p \in 1..n_atoms(self) |->
                              p \notin Range(done.evalonly.idx)]),
                  NoEvalonly)

\* Select._not(token), the token being token[0]
legacy_not(self, evalonly, globals, token) ==
    LET torf == legacy_evaluate(self, evalonly, globals, Tail(token))
    IN  IF IsRaise(torf.ret) THEN torf
        ELSE Left(BoolArr(Invert(torf.ret.a)), torf.evalonly)

\* Select._evalBoolean(keyword)
legacy_evalBoolean(self, evalonly, globals, keyword) ==
    LET n == IF evalonly.none THEN n_atoms(self) ELSE Len(evalonly.idx)
    IN  CASE keyword = "calpha" ->
                 legacy_and(self, evalonly, globals,
                            Strs(<<"name", "CA", AND, "protein">>))
          [] keyword = "noh" ->
                 legacy_not(self, evalonly, globals,
                            <<Str(NOT), Str("name"),
                              RegexGroup(globals.HYDROGEN_REGEX.items)>>)
          [] keyword = "all" -> Left(Filled(n, TRUE), evalonly)
          [] keyword = "none" -> Left(Filled(n, FALSE), evalonly)
          [] keyword = "hydrogen" ->
                 legacy_evaluate(self, evalonly, globals,
                                 <<Str("name"),
                                   RegexGroup(globals.HYDROGEN_REGEX.items)>>)
          [] keyword \in NamedKeywords ->
                 Left(ByNames(self, evalonly, KeywordNames(globals, keyword)),
                      evalonly)
          [] OTHER -> Left(Raise("SelectionError"), evalonly)

\* Select._evaluate(token) of a token of words: no word of the model is a
\* numeric keyword, a number or a keyword argument of select
legacy_evaluate(self, evalonly, globals, token) ==
    IF Len(token) = 1
    THEN IF legacy_isBooleanKeyword(token[1].s)
         THEN legacy_evalBoolean(self, evalonly, globals, token[1].s)
         ELSE Left(Raise("SelectionError"), evalonly)
    ELSE IF legacy_isBooleanKeyword(token[1].s)
    THEN legacy_and(self, evalonly, globals, token)
    ELSE IF legacy_isAlnumKeyword(token[1].s)
    THEN legacy_evalAlnum(self, evalonly, token[1].s, Tail(token))
    ELSE Left(Raise("SelectionError"), evalonly)

\* Select._getStdSelStr(): the words "and", "or" and "not" between spaces
\* become "&&&", "||" and "!!!", and the spaces are made single
_getStdSelStr(selstr) ==
    Strip(ReplaceWhile(
        ReplaceWhile(
            ReplaceWhile(
                ReplaceWhile(<<" ">> \o selstr \o <<" ">>,
                             <<" ", "and", " ">>, <<" ", AND, " ">>),
                <<" ", "or", " ">>, <<" ", OR, " ">>),
            <<" ", "not", " ">>, <<" ", NOT, " ">>),
        <<" ", " ">>, <<" ">>))

RECURSIVE Flat(_)
\* the operands of an "||" chain as pyparsing hands them to Select._or
Flat(operands) ==
    IF Len(operands) = 1 THEN operands[1]
    ELSE operands[1] \o <<Str(OR)>> \o Flat(Tail(operands))

RECURSIVE OrOperands(_, _, _)
\* the operands of the "||" chain as the tokenizer builds them: Select._and
\* is called on each "&&&" chain as it is matched, and its array stands
\* for the chain
OrOperands(self, globals, chains) ==
    IF chains = <<>> THEN <<>>
    ELSE <<IF Str(AND) \in Range(Head(chains))
           THEN <<legacy_and(self, NoEvalonly, globals, Head(chains)).ret>>
           ELSE Head(chains)>>
         \o OrOperands(self, globals, Tail(chains))

\* what the tokenizer returns for the operands: the exception of the first
\* chain that raised, else what Select._or returns for an "||" chain, the
\* array of the one "&&&" chain, or what Select._action, that is
\* Select._evaluate, returns for a string without them
Tokenized(self, globals, operands) ==
    IF operands[1] = <<>> THEN Raise("ParseException")
    ELSE IF \E i \in 1..Len(operands) : IsRaise(operands[i][1])
    THEN operands[CHOOSE i \in 1..Len(operands) :
                     /\ IsRaise(operands[i][1])
                     /\ \A j \in 1..(i - 1) : ~IsRaise(operands[j][1])][1]
    ELSE IF Len(operands) > 1
    THEN legacy_or(self, NoEvalonly, globals, Flat(operands)).ret
    ELSE IF operands[1][1].k = "bool" THEN operands[1][1]
    ELSE legacy_evaluate(self, NoEvalonly, globals, operands[1]).ret

\* Select._parseSelStr()[0] for a string of words
_parseSelStr(self, globals, selstr) ==
    Tokenized(self, globals,
              OrOperands(self, globals,
                       orSplit(Strs(SelectSeq(_getStdSelStr(selstr),
                                              LAMBDA u : u # " ")),
                               <<>>, <<>>)))

\* the end of Select.select: the indices of the atoms of torf, None when
\* there is none, else a Selection of them
Picked(atoms, torf) ==
    LET indices == IF atoms.ag
                   THEN [i \in 1..Len(Nonzero(torf.a)) |->
                            Nonzero(torf.a)[i] - 1]
                   ELSE Take(atoms.indices, Nonzero(torf.a))
    IN  IF Len(indices) = 0 THEN None ELSE Selection(indices)

\* Select.select(atoms, selstr) of the former module
legacy_select(atoms, selstr, globals) ==
    LET torf == _parseSelStr(atoms, globals, selstr)
    IN  IF IsRaise(torf) THEN torf
        ELSE IF torf.k # "bool" THEN Raise("SelectionError")
        ELSE Picked(atoms, torf)

(***************************************************************************)
(* The functions of the former module that get and set the names.  A       *)
(* function that assigns to a name without declaring it global binds a     *)
(* local name of the call: Frame is the call when it ends, with what it    *)
(* returned or raised, the module level names and its local names.         *)
(***************************************************************************)
Frame(ret, globals, locals) ==
    [ret |-> ret, globals |-> globals, locals |-> locals]

\* def setter(arg): the check of arg with isinstance, then  NAME = value
SetLocal(globals, valid, name, value) ==
    IF ~valid THEN Frame(Raise("TypeError"), globals, <<>>)
    ELSE Frame(None, globals, [n \in {name} |-> value])

legacy_setBackboneAtomNames(globals, backbone_atom_names) ==
    SetLocal(globals, IsListOrTuple(backbone_atom_names),
             "BACKBONE_ATOM_NAMES", tuple(backbone_atom_names))

setProteinResidueNames(globals, protein_residue_names) ==
    SetLocal(globals, IsListOrTuple(protein_residue_names),
             "PROTEIN_RESIDUE_NAMES", tuple(protein_residue_names))

setAcidicResidueNames(globals, acidic_residue_names) ==
    SetLocal(globals, IsListOrTuple(acidic_residue_names),
             "ACIDIC_RESIDUE_NAMES", tuple(acidic_residue_names))

setBasicResidueNames(globals, basic_residue_names) ==
    SetLocal(globals, IsListOrTuple(basic_residue_names),
             "BASIC_RESIDUE_NAMES", tuple(basic_residue_names))

setWaterResidueNames(globals, water_residue_names) ==
    SetLocal(globals, IsListOrTuple(water_residue_names),
             "WATER_RESIDUE_NAMES", tuple(water_residue_names))

\* setNucleicResidueNames checks water_residue_names, which is no name of
\* the function and no name of the module
setNucleicResidueNames(globals, nucleic_residue_names) ==
    IF "water_residue_names" \notin DOMAIN globals
    THEN Frame(Raise("NameError"), globals, <<>>)
    ELSE SetLocal(globals, IsListOrTuple(globals.water_residue_names),
                  "NUCLEIC_RESIDUE_NAMES", tuple(nucleic_residue_names))

setHydrogenRegex(globals, hydrogen_regex) ==
    SetLocal(globals, IsString(hydrogen_regex),
             "HYDROGEN_REGEX", hydrogen_regex)

\* the module level name each function is documented to set
SetterName ==
    [setBackboneAtomNames |-> "BACKBONE_ATOM_NAMES",
     setProteinResidueNames |-> "PROTEIN_RESIDUE_NAMES",
     setAcidicResidueNames |-> "ACIDIC_RESIDUE_NAMES",
     setBasicResidueNames |-> "BASIC_RESIDUE_NAMES",
     setWaterResidueNames |-> "WATER_RESIDUE_NAMES",
     setNucleicResidueNames |-> "NUCLEIC_RESIDUE_NAMES",
     setHydrogenRegex |-> "HYDROGEN_REGEX"]

Setters == DOMAIN SetterName

SetterCall(op, globals, arg) ==
    CASE op = "setBackboneAtomNames" ->
             legacy_setBackboneAtomNames(globals, arg)
      [] op = "setProteinResidueNames" -> setProteinResidueNames(globals, arg)
      [] op = "setAcidicResidueNames" -> setAcidicResidueNames(globals, arg)
      [] op = "setBasicResidueNames" -> setBasicResidueNames(globals, arg)
      [] op = "setWaterResidueNames" -> setWaterResidueNames(globals, arg)
      [] op = "setNucleicResidueNames" -> setNucleicResidueNames(globals, arg)
      [] op = "setHydrogenRegex" -> setHydrogenRegex(globals, arg)

\* getBackboneAtomNames(), getProteinResidueNames(), ... getHydrogenRegex():
\* each returns list(NAME)
GetterCall(op, globals) == list(globals[SetterName[op]])

\* the arguments the functions are called with
SetterArgs ==
    {ListArg(<<"ALA", "GLU">>), ListArg(<<"HEM", "HOH">>),
     TupleArg(<<"CA", "CB">>), StrArg(<<"C", ".", "*">>)}

\* the keyword that is evaluated by each name
SetterKeyword ==
    [setBackboneAtomNames |-> "backbone",
     setProteinResidueNames |-> "protein",
     setAcidicResidueNames |-> "acidic",
     setBasicResidueNames |-> "basic",
     setWaterResidueNames |-> "water",
     setNucleicResidueNames |-> "nucleic",
     setHydrogenRegex |-> "hydrogen"]

\* the atoms the selections of the former module are made on
LegacyTargets == {AtomGroup, Subset(<<0, 1, 5>>)}

\* the operands that are evaluated through a nested call of Select._and
NestedOperands == {<<"calpha">>, <<"protein", " ", "name", " ", "CA">>}

\* the operands of the "and" and "or" chains
LegacyOperands ==
    {<<"name", " ", "N">>, <<"name", " ", "CA", " ", "CB">>,
     <<"resname", " ", "ALA", " ", "GLU">>, <<"chain", " ", "A">>,
     <<"protein">>, <<"water">>, <<"hetero">>, <<"sidechain">>, <<"noh">>,
     <<"all">>, <<"none">>}
    \cup NestedOperands

LegacyQueries ==
    LegacyOperands
    \cup {a \o <<" ", w, " ", "calpha">> :
             a \in LegacyOperands, w \in {"and", "or"}}
    \cup {<<"calpha", " ", w, " ">> \o b : w \in {"and", "or"},
                                            b \in LegacyOperands}
    \cup {<<"name", " ", "N", " ", "or", " ">> \o b
              \o <<" ", "and", " ", "protein">> : b \in NestedOperands}
    \cup {<<"hydrogen">>, <<"backbone">>, <<"acidic">>, <<"polar">>,
          <<"segment", " ", "S1">>, <<"type", " ", "C">>, <<"foo">>,
          <<"foo", " ", "bar">>, <<"chain", " ", "_">>}

LegacySelect ==
    /\ ncalls < MaxCalls
    /\ \E atoms \in LegacyTargets, selstr \in LegacyQueries :
           call' = Call("select", "prody.select", selstr, atoms,
                        legacy_select(atoms, selstr, LEGACY), "")
    /\ ncalls' = ncalls + 1
    /\ UNCHANGED <<catalog, MACROS, SELECT, arrays, LEGACY>>

LegacySet ==
    /\ ncalls < MaxCalls
    /\ \E op \in Setters, arg \in SetterArgs :
           /\ call' = Call(op, SetterName[op], arg, AtomGroup,
                           SetterCall(op, LEGACY, arg).ret, "")
           /\ LEGACY' = SetterCall(op, LEGACY, arg).globals
    /\ ncalls' = ncalls + 1
    /\ UNCHANGED <<catalog, MACROS, SELECT, arrays>>

LegacyGet ==
    /\ ncalls < MaxCalls
    /\ \E op \in Setters :
           call' = Call("get", SetterName[op], <<>>, AtomGroup,
                        GetterCall(op, LEGACY), "")
    /\ ncalls' = ncalls + 1
    /\ UNCHANGED <<catalog, MACROS, SELECT, arrays, LEGACY>>

NextLegacy ==
    \/ LegacySelect
    \/ LegacySet
    \/ LegacyGet

SpecLegacy == Init /\ [][NextLegacy]_vars

(***************************************************************************)
(* Properties of the caches of the instance.                               *)
(***************************************************************************)
\* the call of the state, made by a new instance on the target as it was
\* when the call was made
FreshReturn ==
    IF call.op = "select" THEN select(call.atoms, call.arg)
    ELSE getBoolArray(call.atoms, call.arg)

\* the call of the state, made by an instance that holds what was read
\* from the table of atoms
TableReturn ==
    IF call.op = "select"
    THEN select([ag |-> call.atoms.ag, indices |-> call.atoms.indices,
                 n |-> call.atoms.n], call.arg)
    ELSE getBoolArray([ag |-> call.atoms.ag, indices |-> call.atoms.indices,
                       n |-> call.atoms.n], call.arg)

Delimiters == {" ", "(", ")"}

RECURSIVE WordEnd(_, _)
\* the position after the word that starts at p
WordEnd(chars, p) ==
    IF p <= Len(chars) /\ chars[p] \notin Delimiters THEN WordEnd(chars, p + 1)
    ELSE p

\* the symbol of an operator word, any other word as it is
SymbolOf(word) ==
    CASE word = CharWords.and -> CharWords.AND
      [] word = CharWords.or  -> CharWords.OR
      [] word = CharWords.not -> CharWords.NOT
      [] OTHER                -> word

RECURSIVE WholeWordsReplaced(_)
\* the string with every whole word `and`, `or`, `not` replaced by its
\* symbol, and nothing else changed
WholeWordsReplaced(chars) ==
    IF chars = <<>> THEN <<>>
    ELSE IF Head(chars) \in Delimiters
    THEN <<Head(chars)>> \o WholeWordsReplaced(Tail(chars))
    ELSE SymbolOf(SubSeq(chars, 1, WordEnd(chars, 1) - 1))
         \o WholeWordsReplaced(SubSeq(chars, WordEnd(chars, 1), Len(chars)))

\* C22: _prepareSelstr returns the string with every whole word `and`,
\* `or`, `not` replaced by its symbol, next to spaces or to parentheses,
\* and with no other change than the white space stripped at both ends
C22_WholeWordsAreReplaced ==
    call.op = "_prepareSelstr" =>
        call.ret = Strip(WholeWordsReplaced(call.arg))

\* the same for the strings without `not` between two parentheses or
\* after a closing parenthesis, and without `and`, `or` after an opening
\* parenthesis
C22_Handled ==
    (/\ call.op = "_prepareSelstr"
     /\ \A w \in {CharWords.and, CharWords.or} :
            ~Contains(Between(" ", call.arg, " "), <<"(">> \o w \o <<" ">>)
            /\ ~Contains(Between(" ", call.arg, " "), <<"(">> \o w \o <<"(">>)
            /\ ~Contains(Between(" ", call.arg, " "), <<"(">> \o w \o <<")">>)
            /\ ~Contains(Between(" ", call.arg, " "), <<" ">> \o w \o <<")">>)
            /\ ~Contains(Between(" ", call.arg, " "), <<")">> \o w \o <<")">>)
     /\ \A a \in Delimiters, b \in Delimiters :
            Contains(Between(" ", call.arg, " "),
                     <<a>> \o CharWords.not \o <<b>>)
                => <<a, b>> \in {<<"(", " ">>, <<" ", "(">>, <<" ", " ">>})
        => call.ret = Strip(WholeWordsReplaced(call.arg))



(***************************************************************************)
(* Properties of the documented keywords.                                  *)
(***************************************************************************)
\* the call of the state is getBoolArray with one of the keywords as the
\* selection string
KeywordCall(keywords) ==
    /\ call.op = "getBoolArray"
    /\ Len(call.arg) = 1
    /\ call.arg[1] \in keywords

\* the call returned what the string documented for its keyword selects
AsDocumented ==
    call.ret = getBoolArray(call.atoms, SameAsDocumented[call.arg[1]])

\* C23: a keyword of a secondary structure selects what the string the
\* documentation gives for it selects: extended is "secondary E", helix
\* "secondary H", helix_3_10 "secondary G", helix_pi "secondary I", turn
\* "secondary T", bridge "secondary B", bend "secondary S" and coil
\* "secondary C"
C23_SecondaryAsDocumented ==
    KeywordCall(DOMAIN SECSTR_MAP) => AsDocumented

\* the same, but for the two keywords helix_3_10 and helix_pi
C23_OtherThanShortHelices ==
    KeywordCall(DOMAIN SECSTR_MAP \ {"helix_3_10", "helix_pi"})
        => AsDocumented

\* C24: a read-only keyword selects what its defining string selects:
\* acyclic is "protein and not cyclic", charged "acidic or basic", large
\* "not (small or medium)", neutral "protein and not charged", polar
\* "protein and not hydrophobic" and surface "protein and not buried"
C24_ReadonlyAsDocumented ==
    KeywordCall({"acyclic", "charged", "large", "neutral", "polar",
                 "surface"}) => AsDocumented

\* the same, but for the keyword large
C24_OtherThanLarge ==
    KeywordCall({"acyclic", "charged", "neutral", "polar", "surface"})
        => AsDocumented

\* C25: sidechain and sc select what "not name CA C O N H and protein"
\* selects, backbone and bb what "name CA C O N and protein" selects
C25_BackboneSidechainAsDocumented ==
    KeywordCall({"backbone", "bb", "sidechain", "sc"}) => AsDocumented

\* the same for backbone and bb alone
C25_Backbone ==
    KeywordCall({"backbone", "bb"}) => AsDocumented



(***************************************************************************)
(* Properties of the function names.                                       *)
(***************************************************************************)
\* C26: every function of the documentation (sqrt, sq, abs, floor, ceil,
\* sin, cos, tan, asin, acos, atan, sinh, cosh, tanh, exp, log, log10) is
\* matched by the tokenizer as a function and is a reserved word
C26_DocumentedFunctionsAreKnown ==
    (call.op \in {"isReserved", "functions"}
     /\ call.name \in DocumentedFunctions) => call.ret = PyBool(TRUE)

\* the same for the functions other than tanh
C26_OtherThanTanh ==
    (call.op \in {"isReserved", "functions"}
     /\ call.name \in DocumentedFunctions \ {"tanh"}) => call.ret = PyBool(TRUE)



(***************************************************************************)
(* Properties of the narrowing of Select._or.                              *)
(***************************************************************************)
\* the selection string is made of words and spaces only: its operands
\* reach Select._or as tokens, not as arrays
OnlyWords(selstr) == \A p \in 1..Len(selstr) : selstr[p] = " " \/ IsWord(selstr[p])

\* the tokens Select._or is called with for a chain of operands of words
OrTokens(selstr) == Strs(Units(_prepareSelstr(selstr)))

\* the atoms that none of the first k masks selects, and the element-wise
\* OR of the first k masks
Unselected(alone, k) ==
    {p \in 1..Len(alone[1].a) : \A j \in 1..k : ~alone[j].a[p]}
UnionOf(alone, k) ==
    [p \in 1..Len(alone[1].a) |-> \E j \in 1..k : alone[j].a[p]]

\* C27: while Select._or evaluates a chain Q1 or ... or Qn, just before
\* operand k+1 is evaluated evalonly holds exactly the atoms that none of
\* Q1..Qk selects, and selection is the union of Q1..Qk
C27_OrNarrowsToUnselected ==
    (/\ call.op = "getBoolArray"
     /\ IsChain(call.arg, "or", "and")
     /\ OnlyWords(call.arg)
     /\ AllMasks(Alone("or"))) =>
        LET trace == orTrace(call.atoms, OrTokens(call.arg), 1, NoPrevious,
                             NoEvalonly, None)
        IN  /\ Len(trace) = Len(Alone("or"))
            /\ \A k \in 1..(Len(trace) - 1) :
                   /\ ~trace[k + 1].evalonly.none
                   /\ Range(trace[k + 1].evalonly.idx)
                          = Unselected(Alone("or"), k)
                   /\ trace[k + 1].selection.a = UnionOf(Alone("or"), k)

\* the same before the second operand: evalonly holds the atoms the first
\* operand does not select, and selection is the mask of the first operand
C27_FirstNarrowing ==
    (/\ call.op = "getBoolArray"
     /\ IsChain(call.arg, "or", "and")
     /\ OnlyWords(call.arg)
     /\ AllMasks(Alone("or"))) =>
        LET trace == orTrace(call.atoms, OrTokens(call.arg), 1, NoPrevious,
                             NoEvalonly, None)
        IN  /\ Len(trace) = Len(Alone("or"))
            /\ call.ret = Checked(_or(call.atoms, OrTokens(call.arg)))
            /\ trace[1].evalonly.none
            /\ Range(trace[2].evalonly.idx) = Unselected(Alone("or"), 1)
            /\ trace[2].selection.a = UnionOf(Alone("or"), 1)



(***************************************************************************)
(* Properties of the two ways of Select._within.                           *)
(***************************************************************************)
\* the call of the state is a distance query `within R of G` or
\* `exwithin R of G` whose G evaluates alone to a mask of the target
DistanceCall ==
    /\ call.op = "getBoolArray"
    /\ IsWithin(call.arg, "within") \/ IsWithin(call.arg, "exwithin")
    /\ IsMask(getBoolArray(call.atoms, ReferenceOf(call.arg)), call.atoms)

\* the reference atoms of the distance query of the state
ReferenceAtoms ==
    Nonzero(getBoolArray(call.atoms, ReferenceOf(call.arg)).a)

\* C28: for the target, the reference atoms, the radius and the exclude
\* flag of a distance query, the search around each reference atom (taken
\* below 20 reference atoms) and the search around every other atom in the
\* tree of the reference atoms give the same mask, which is what the call
\* returns: the result does not depend on the threshold
C28_BranchesAgree ==
    DistanceCall =>
        /\ WithinSparse(call.atoms, ReferenceAtoms, RadiusOf(call.arg),
                        IsWithin(call.arg, "exwithin"))
              = WithinDense(call.atoms, ReferenceAtoms, RadiusOf(call.arg),
                            IsWithin(call.arg, "exwithin"))
        /\ call.ret
              = WithinDense(call.atoms, ReferenceAtoms, RadiusOf(call.arg),
                            IsWithin(call.arg, "exwithin"))

\* `exwithin 2 of G` was evaluated on a subset of the large atom group for
\* a G that selects 20 atoms of the 21, so the tree of the reference atoms
\* was searched; some atom is in the result and some is not
C28_Witness ==
    /\ DistanceCall
    /\ ~call.atoms.ag
    /\ IsWithin(call.arg, "exwithin")
    /\ Len(ReferenceAtoms) >= SparseBelow
    /\ call.ret.k = "bool"
    /\ \E p \in 1..Len(call.ret.a) : call.ret.a[p]
    /\ \E p \in 1..Len(call.ret.a) : ~call.ret.a[p]

\* `within 2 of G` was evaluated for a G that selects fewer than 20 atoms,
\* so the tree of the atom group was searched; some atom that G does not
\* select is in the result and some atom is not
C28_WitnessSparse ==
    /\ DistanceCall
    /\ IsWithin(call.arg, "within")
    /\ Len(ReferenceAtoms) \in 1..(SparseBelow - 1)
    /\ call.ret.k = "bool"
    /\ \E p \in 1..Len(call.ret.a) : call.ret.a[p] /\ p \notin Range(ReferenceAtoms)
    /\ \E p \in 1..Len(call.ret.a) : ~call.ret.a[p]


(***************************************************************************)
(* Properties of the combinators of the former module.                     *)
(***************************************************************************)
\* a call of Select.select of the former module
LegacyCall == call.op = "select" /\ call.name = "prody.select"

\* the atoms a selection string selects when it is evaluated alone
AtomsOf(atoms, selstr) == _parseSelStr(atoms, LEGACY, selstr).a

\* C29: in the former module, an operand that is evaluated through a
\* nested call of _and (calpha) inside an "and" or "or" does not corrupt
\* the narrowing of the enclosing combinator: "Q or calpha" selects the
\* union of the atoms of Q and of calpha, "Q and calpha" their
\* intersection, for every Q
C29_NestedAndKeepsNarrowing ==
    \A Q \in LegacyOperands, word \in {"and", "or"} :
        (LegacyCall /\ call.arg = Q \o <<" ", word, " ", "calpha">>) =>
            call.ret =
                Picked(call.atoms,
                       BoolArr([p \in 1..n_atoms(call.atoms) |->
                           IF word = "or"
                           THEN AtomsOf(call.atoms, Q)[p]
                                \/ AtomsOf(call.atoms, <<"calpha">>)[p]
                           ELSE AtomsOf(call.atoms, Q)[p]
                                /\ AtomsOf(call.atoms, <<"calpha">>)[p]]))

\* "Q and calpha" selects the intersection, and "calpha or Q" the union
\* when Q is not evaluated through a nested call of Select._and
C29_OtherThanOrCalpha ==
    \A Q \in LegacyOperands :
        /\ (LegacyCall /\ call.arg = Q \o <<" ", "and", " ", "calpha">>) =>
               call.ret =
                   Picked(call.atoms,
                          BoolArr([p \in 1..n_atoms(call.atoms) |->
                              AtomsOf(call.atoms, Q)[p]
                              /\ AtomsOf(call.atoms, <<"calpha">>)[p]]))
        /\ (/\ LegacyCall
            /\ call.arg = <<"calpha", " ", "or", " ">> \o Q
            /\ Q \notin NestedOperands) =>
               call.ret =
                   Picked(call.atoms,
                          BoolArr([p \in 1..n_atoms(call.atoms) |->
                              AtomsOf(call.atoms, Q)[p]
                              \/ AtomsOf(call.atoms, <<"calpha">>)[p]]))

(***************************************************************************)
(* Properties of the functions that set the names of the former module.    *)
(***************************************************************************)
\* the argument is what the function documents: a list or a tuple of
\* names, a string for the regular expression
ValidArg(op, arg) ==
    IF op = "setHydrogenRegex" THEN IsString(arg) ELSE IsListOrTuple(arg)

\* the module level names with the name of `op` set to the argument
WithArg(globals, op, arg) ==
    [globals EXCEPT ![SetterName[op]] =
        IF op = "setHydrogenRegex" THEN arg ELSE tuple(arg)]

\* C30: in the former module each function that sets the names of a
\* keyword takes effect: after a call with a valid argument the matching
\* get function returns the new names and the keyword is evaluated with
\* them
C30_SettersTakeEffect ==
    (call.op \in Setters /\ ValidArg(call.op, call.arg)) =>
        /\ call.ret = None
        /\ GetterCall(call.op, LEGACY).items = call.arg.items
        /\ legacy_select(AtomGroup, <<SetterKeyword[call.op]>>, LEGACY)
               = legacy_select(AtomGroup, <<SetterKeyword[call.op]>>,
                               WithArg(LEGACY, call.op, call.arg))

\* a call with an argument of another type raises TypeError, but for
\* setNucleicResidueNames, and no call changes a module level name
C30_SettersKeepTheNames ==
    /\ LEGACY = LEGACY_0
    /\ (call.op \in Setters \ {"setNucleicResidueNames"}
            /\ ~ValidArg(call.op, call.arg)) =>
           call.ret = Raise("TypeError")

====
